---- MODULE Spec2Model ----
(***************************************************************************)
(* The generic endpoint dispatch engine of ms-365-mcp-server:              *)
(*   GraphClient   (src/src/graph-client.ts): token session, makeRequest   *)
(*                 with refresh-and-retry on 401, graphRequest and the     *)
(*                 response normaliser formatJsonResponse;                 *)
(*   executeGraphTool (src/src/graph-tools.ts): the per-call pipeline and  *)
(*                 its page aggregation loop.                              *)
(*   collectSharePointFiles, resolveSiteDrive, matchesFilter: the walk of  *)
(*                 a document library;                                     *)
(*   registerGraphTools, registerDiscoveryTools: the tools a process       *)
(*                 offers, and the download-file-to-local handler.         *)
(* Every await of the code is a step boundary: an action runs the code     *)
(* from one await to the next.                                             *)
(***************************************************************************)
EXTENDS Integers, Sequences, FiniteSets, TLC

\* ------------------------------------------------------------------ bounds
\* How many token pairs the token endpoint mints in one behaviour.
MaxMint == 2
\* The largest number of pages the remote collection holds.
MaxServerPages == 2
\* The sizes one page of the remote collection may have.
PageSizes == {0, 1}

\* --------------------------------------------------------- program constant
\* graph-tools.ts:234  while (nextLink && pageCount < 100)
MaxPages == 100

VARIABLES
    accessToken,    \* GraphClient.accessToken   (graph-client.ts:43)
    refreshToken,   \* GraphClient.refreshToken  (graph-client.ts:44)
    outputFormat,   \* GraphClient.outputFormat  (graph-client.ts:45)
    clientSecret,   \* process.env.MS365_MCP_CLIENT_SECRET is set
    minted,         \* token pairs the token endpoint has issued so far
    call,           \* the makeRequest activations, by caller
    srv,            \* the remote collection: number of pages and their sizes
    tool,           \* the executeGraphTool activation
    bind,           \* the parameter binding of executeGraphTool, lines 90-224
    norm,           \* one application of formatJsonResponse
    tree,           \* the collectSharePointFiles activation
    match,          \* one application of matchesFilter
    drive,          \* the resolveSiteDrive activation
    reg,            \* the registrations of one server process
    dl,             \* the download-file-to-local activation
    listChildren    \* the listDriveItemChildren activation

vars == <<accessToken, refreshToken, outputFormat, clientSecret, minted, call, srv, tool, bind, norm,
          tree, match, drive, reg, dl, listChildren>>

\* ------------------------------------------------------------------ tokens
\* A token is a pair <<origin, n>>; the null / undefined / '' token is Null.
Null       == <<"null", 0>>
SessionAT  == <<"session-access", 0>>
SessionRT  == <<"session-refresh", 0>>
OptionAT   == <<"option-access", 0>>
OptionRT   == <<"option-refresh", 0>>
ManagerAT  == <<"auth-manager", 0>>
MintedAT(n) == <<"minted-access", n>>
MintedRT(n) == <<"minted-refresh", n>>

\* a || b of JavaScript, on tokens
OrElse(a, b) == IF a # Null THEN a ELSE b

\* ------------------------------------------------------------- JSON values
\* An object key is <<prefix, rest>>, so that key.startsWith('@odata.') is a
\* test of the prefix.
ODataPrefix == "@odata."
Key(name)      == <<"", name>>
ODataKey(name) == <<ODataPrefix, name>>
K_value    == Key("value")
K_message  == Key("message")
K_raw      == Key("rawResponse")
K_etag     == Key("_etag")
K_success  == Key("success")
K_error    == Key("error")
K_headers  == Key("_headers")
K_nextLink == ODataKey("nextLink")
K_count    == ODataKey("count")
K_context  == ODataKey("context")

\* The empty object {}.
EmptyObj == [k \in {} |-> 0]
Has(obj, k) == k \in DOMAIN obj
\* obj with key k set to v / with key k deleted
With(obj, k, v) == [x \in (DOMAIN obj) \cup {k} |-> IF x = k THEN v ELSE obj[x]]
Without(obj, k) == [x \in (DOMAIN obj) \ {k} |-> obj[x]]

\* ------------------------------------------------------- requests, replies
\* The query string of a request URL: absent, the one the call was bound with,
\* or the one of a continuation cursor (its skip token names the page).
NoQuery       == <<"none", 0>>
OrigQuery     == <<"orig", 0>>
SkipQuery(k)  == <<"skiptoken", k>>

\* The endpoint string handed to makeRequest: a path and the query appended to it.
Endpoint(p, q) == [path |-> p, query |-> q]

\* A continuation cursor: the text of an absolute URL (ok), or text that
\* new URL() rejects.
Cursor(p, q)    == [ok |-> TRUE,  path |-> p,  query |-> q]
MalformedCursor == [ok |-> FALSE, path |-> "", query |-> NoQuery]

\* Marker substrings an error body may contain.
Markers == {"scope", "permission"}
Includes(text, w) == w \in text

\* Response bodies: '' , a JSON document, or text that is not JSON.
EmptyText      == [kind |-> "empty", data |-> EmptyObj, words |-> {}]
JsonText(obj)  == [kind |-> "json",  data |-> obj,      words |-> {}]
PlainText(ws)  == [kind |-> "plain", data |-> EmptyObj, words |-> ws]

StatusOk(status) == status >= 200 /\ status <= 299
StatusText(status) ==
    CASE status = 200 -> "OK"
      [] status = 401 -> "Unauthorized"
      [] status = 403 -> "Forbidden"
      [] status = 500 -> "Internal Server Error"
      [] OTHER        -> ""

\* fetch() either resolves to a Response or rejects (net = TRUE).
Response(status, text, etag) == [net |-> FALSE, status |-> status, text |-> text, etag |-> etag]
NetworkFailure == [net |-> TRUE, status |-> 0, text |-> EmptyText, etag |-> ""]

\* ------------------------------------------------------- the remote service
\* Items of page i of the collection: size[i] items, numbered within the page.
PageItems(i) == [j \in 1..srv.size[i] |-> 10 * i + j]

\* The page a request addresses: the one its skip token names, else the first.
PageIndex(req) == IF req.query[1] = "skiptoken" THEN req.query[2] ELSE 1

\* Page i as the service serves it: its items, the collection's count, and a
\* cursor to page i+1 unless i is the last page.
PageBody(path, i, withCount) ==
    LET items == IF i \in 1..srv.n THEN PageItems(i) ELSE <<>>
        base  == (K_value :> items) @@ (K_context :> "ctx")
        cnt   == IF withCount THEN (K_count :> srv.total) ELSE EmptyObj
        link  == IF i < srv.n THEN (K_nextLink :> Cursor(path, SkipQuery(i + 1)))
                 ELSE EmptyObj
    IN  base @@ cnt @@ link

\* Every reply the service may give to one request: the addressed page, the
\* page with a cursor that is no URL, an empty or non-JSON 2xx body, 401, 403
\* with any marker text, 500, or no reply at all. A page comes with or without
\* the collection's count and with or without an ETag header.
ServerReplies(req) ==
    LET i    == PageIndex(req)
        page == PageBody(req.path, i, FALSE)
    IN  { Response(200, JsonText(PageBody(req.path, i, c)), e)
          : c \in BOOLEAN, e \in {"", "etag"} }
    \cup
        { Response(200, JsonText(With(page, K_nextLink, MalformedCursor)), ""),
          Response(200, EmptyText, ""),
          Response(200, PlainText({}), ""),
          Response(401, PlainText({}), ""),
          Response(500, PlainText({}), ""),
          NetworkFailure }
    \cup { Response(403, PlainText(ws), "") : ws \in SUBSET Markers }

\* Replies of the token endpoint to a refresh: a new access token with or
\* without a new refresh token, or a failure (non-OK reply or no reply).
TokenReplies ==
    { [ok |-> FALSE, access_token |-> Null, refresh_token |-> Null] }
    \cup (IF minted < MaxMint
          THEN { [ok |-> TRUE, access_token |-> MintedAT(minted + 1), refresh_token |-> r]
                 : r \in {Null, MintedRT(minted + 1)} }
          ELSE {})

\* ------------------------------------------------- GraphClient.makeRequest
CallIds == {1, 2}

NoError == [kind |-> "none", status |-> 0, statusText |-> "", body |-> {}, orgHint |-> FALSE]
\* new Error(`Microsoft Graph API scope error: ${status} ${statusText} - ${errorText}.
\*            This tool requires organization mode. ...`)
ScopeError(r) == [kind |-> "Microsoft Graph API scope error", status |-> r.status,
                  statusText |-> StatusText(r.status), body |-> r.text.words, orgHint |-> TRUE]
\* new Error(`Microsoft Graph API error: ${status} ${statusText} - ${errorText}`)
ApiError(r)   == [kind |-> "Microsoft Graph API error", status |-> r.status,
                  statusText |-> StatusText(r.status), body |-> r.text.words, orgHint |-> FALSE]
OtherError(k) == [kind |-> k, status |-> 0, statusText |-> "", body |-> {}, orgHint |-> FALSE]

NoOutcome   == [kind |-> "none",   value |-> EmptyObj, error |-> NoError]
Returned(v) == [kind |-> "return", value |-> v,        error |-> NoError]
Thrown(e)   == [kind |-> "throw",  value |-> EmptyObj, error |-> e]

NoRequest == [path |-> "", query |-> NoQuery, method |-> "", token |-> Null]
NoGrant   == [ok |-> FALSE, access_token |-> Null, refresh_token |-> Null]

Options(at, rt, raw, incl, excl, qp) ==
    [accessToken |-> at, refreshToken |-> rt, method |-> "GET", rawResponse |-> raw,
     includeHeaders |-> incl, excludeResponse |-> excl, queryParams |-> qp]

IdleCall ==
    [pc |-> "idle", endpoint |-> Endpoint("", NoQuery),
     options |-> Options(Null, Null, FALSE, FALSE, FALSE, NoQuery),
     at |-> Null, rt |-> Null, req |-> NoRequest, attempts |-> 0, refreshes |-> 0,
     sent |-> <<>>, got |-> <<>>, last |-> NetworkFailure, grant |-> NoGrant, at0 |-> Null, rt0 |-> Null,
     outcome |-> NoOutcome]

\* performRequest: the URL is the base URL plus the endpoint string, the bearer
\* token is the one passed in; of the options only method, headers and body are
\* read.
performRequest(endpoint, token, options) ==
    [path |-> endpoint.path, query |-> endpoint.query, method |-> options.method,
     token |-> token]

\* makeRequest lines 116-128: with includeHeaders the ETag is added to the result
\* under _etag.
AttachEtag(result, r, options) ==
    IF options.includeHeaders
    THEN With(result, K_etag, IF r.etag # "" THEN r.etag ELSE "no-etag-found")
    ELSE result

\* makeRequest lines 102-113: '' gives {message: 'OK!'}, JSON is parsed, any other
\* text gives {message: 'OK!', rawResponse: text}.
DecodeBody(text) ==
    CASE text.kind = "empty" -> (K_message :> "OK!")
      [] text.kind = "json"  -> text.data
      [] OTHER               -> (K_message :> "OK!") @@ (K_raw :> "text")

\* Classify without the test of the 403 body for 'scope' / 'permission'.
Classify_NoScopeTest(r, options) ==
    IF ~StatusOk(r.status)
    THEN Thrown(ApiError(r))
    ELSE Returned(AttachEtag(DecodeBody(r.text), r, options))

\* makeRequest lines 84-128, on the response that is kept: the outcome of the call.
Classify(r, options) ==
    IF r.status = 403
    THEN IF Includes(r.text.words, "scope") \/ Includes(r.text.words, "permission")
         THEN Thrown(ScopeError(r))
         ELSE Thrown(ApiError(r))
    ELSE IF ~StatusOk(r.status)
    THEN Thrown(ApiError(r))
    ELSE Returned(AttachEtag(DecodeBody(r.text), r, options))

\* What authManager.getToken() may give; it is asked only when no other access
\* token is at hand.
ManagerTokens(known) == IF known = Null THEN {Null, ManagerAT} ELSE {Null}

\* makeRequest lines 57-68: choose the tokens, fail without an access token, else
\* issue the first attempt. managerToken is what authManager.getToken() gives.
MakeRequestStart(endpoint, options, managerToken) ==
    LET at == OrElse(options.accessToken, OrElse(accessToken, managerToken))
        rt == OrElse(options.refreshToken, refreshToken)
        c0 == [IdleCall EXCEPT !.endpoint = endpoint, !.options = options,
                               !.at = at, !.rt = rt,
                               !.at0 = accessToken, !.rt0 = refreshToken]
    IN  IF at = Null
        THEN [c0 EXCEPT !.pc = "done",
                        !.outcome = Thrown(OtherError("No access token available"))]
        ELSE [c0 EXCEPT !.pc = "attempt1",
                        !.req = performRequest(endpoint, at, options),
                        !.attempts = 1, !.sent = <<at>>]

\* FirstResponseGiven with the refresh tried on every 401, a refresh token held
\* or not.
FirstResponseGiven_AlwaysRefresh(cl, r) ==
    IF r.net
    THEN [cl EXCEPT !.pc = "done", !.outcome = Thrown(OtherError("fetch failed"))]
    ELSE LET c1 == [cl EXCEPT !.got = <<r.status>>, !.last = r]
         IN  IF r.status = 401
             THEN IF ~clientSecret
                  THEN [c1 EXCEPT !.pc = "done", !.refreshes = 1,
                           !.outcome = Thrown(OtherError("MS365_MCP_CLIENT_SECRET not configured"))]
                  ELSE [c1 EXCEPT !.pc = "refresh", !.refreshes = 1]
             ELSE [c1 EXCEPT !.pc = "done", !.outcome = Classify(r, cl.options)]

\* makeRequest lines 68-72 and 84-128, refreshAccessToken lines 194-202: the first
\* response. On 401 with a refresh token the refresh is invoked: it throws at once
\* without a client secret, else the token endpoint is called.
FirstResponseGiven(cl, r) ==
    IF r.net
    THEN [cl EXCEPT !.pc = "done", !.outcome = Thrown(OtherError("fetch failed"))]
    ELSE LET c1 == [cl EXCEPT !.got = <<r.status>>, !.last = r]
         IN  IF r.status = 401 /\ cl.rt # Null
             THEN IF ~clientSecret
                  THEN [c1 EXCEPT !.pc = "done", !.refreshes = 1,
                           !.outcome = Thrown(OtherError("MS365_MCP_CLIENT_SECRET not configured"))]
                  ELSE [c1 EXCEPT !.pc = "refresh", !.refreshes = 1]
             ELSE [c1 EXCEPT !.pc = "done", !.outcome = Classify(r, cl.options)]

FirstResponse(c) ==
    /\ call[c].pc = "attempt1"
    /\ \E r \in ServerReplies(call[c].req) :
         call' = [call EXCEPT ![c] = FirstResponseGiven(call[c], r)]
    /\ UNCHANGED <<accessToken, refreshToken, outputFormat, clientSecret, minted, srv, tool, bind, norm, tree,
                   match, drive, reg, dl, listChildren>>

\* SessionAfterRefresh with the refresh token overwritten even when the grant
\* brings none.
SessionAfterRefresh_DropsRefreshToken(g) ==
    [accessToken |-> g.access_token, refreshToken |-> g.refresh_token]

\* SessionAfterRefresh with an access token that a refresh has set kept.
SessionAfterRefresh_FirstWins(g) ==
    [accessToken  |-> IF accessToken[1] = "minted-access" THEN accessToken ELSE g.access_token,
     refreshToken |-> IF g.refresh_token # Null THEN g.refresh_token ELSE refreshToken]

\* refreshAccessToken lines 202-206: the session's tokens after the token
\* endpoint's reply g.
SessionAfterRefresh(g) ==
    [accessToken  |-> g.access_token,
     refreshToken |-> IF g.refresh_token # Null THEN g.refresh_token ELSE refreshToken]

\* RetryToken with the retry sent with the token of the first attempt.
RetryToken_Stale(sessionToken, localToken) == localToken

\* makeRequest lines 75-81, after the refresh: the token of the retry.
RetryToken(sessionToken, localToken) == OrElse(sessionToken, localToken)

\* RefreshResponse with the session's tokens cleared when the token endpoint
\* refuses the refresh.
RefreshResponse_ClearsOnFailure(c) ==
    /\ call[c].pc = "refresh"
    /\ \E g \in TokenReplies :
         IF ~g.ok
         THEN /\ call' = [call EXCEPT ![c].pc = "done",
                                      ![c].outcome = Thrown(OtherError("Failed to refresh token"))]
              /\ accessToken' = Null
              /\ refreshToken' = Null
              /\ UNCHANGED minted
         ELSE LET s  == SessionAfterRefresh(g)
                  at == RetryToken(s.accessToken, call[c].at)
              IN  /\ accessToken' = s.accessToken
                  /\ refreshToken' = s.refreshToken
                  /\ minted' = minted + 1
                  /\ call' = [call EXCEPT ![c].pc = "attempt2", ![c].at = at,
                                 ![c].grant = g,
                                 ![c].req = performRequest(call[c].endpoint, at, call[c].options),
                                 ![c].attempts = 2,
                                 ![c].sent = Append(call[c].sent, at)]
    /\ UNCHANGED <<outputFormat, clientSecret, srv, tool, bind, norm, tree,
                   match, drive, reg, dl, listChildren>>

\* refreshAccessToken lines 202-206 and makeRequest lines 72-81: the token
\* endpoint's reply. A failure throws out of makeRequest; a grant replaces the
\* session's tokens and the request is issued again with the session's token.
RefreshResponse(c) ==
    /\ call[c].pc = "refresh"
    /\ \E g \in TokenReplies :
         IF ~g.ok
         THEN /\ call' = [call EXCEPT ![c].pc = "done",
                                      ![c].outcome = Thrown(OtherError("Failed to refresh token"))]
              /\ UNCHANGED <<accessToken, refreshToken, minted>>
         ELSE LET s  == SessionAfterRefresh(g)
                  at == RetryToken(s.accessToken, call[c].at)
              IN  /\ accessToken' = s.accessToken
                  /\ refreshToken' = s.refreshToken
                  /\ minted' = minted + 1
                  /\ call' = [call EXCEPT ![c].pc = "attempt2", ![c].at = at,
                                 ![c].grant = g,
                                 ![c].req = performRequest(call[c].endpoint, at, call[c].options),
                                 ![c].attempts = 2,
                                 ![c].sent = Append(call[c].sent, at)]
    /\ UNCHANGED <<outputFormat, clientSecret, srv, tool, bind, norm, tree,
                   match, drive, reg, dl, listChildren>>

\* RetryResponseGiven with a 401 to the retry answered by another refresh.
RetryResponseGiven_RefreshAgain(cl, r) ==
    IF r.net
    THEN [cl EXCEPT !.pc = "done", !.outcome = Thrown(OtherError("fetch failed"))]
    ELSE IF r.status = 401 /\ cl.rt # Null
    THEN [cl EXCEPT !.pc = "refresh", !.got = Append(cl.got, r.status), !.last = r,
                    !.refreshes = @ + 1]
    ELSE [cl EXCEPT !.pc = "done", !.got = Append(cl.got, r.status), !.last = r,
                    !.outcome = Classify(r, cl.options)]

\* makeRequest lines 81-128: the response to the retry is kept, whatever it is.
RetryResponseGiven(cl, r) ==
    IF r.net
    THEN [cl EXCEPT !.pc = "done", !.outcome = Thrown(OtherError("fetch failed"))]
    ELSE [cl EXCEPT !.pc = "done", !.got = Append(cl.got, r.status), !.last = r,
                    !.outcome = Classify(r, cl.options)]

RetryResponse(c) ==
    /\ call[c].pc = "attempt2"
    /\ \E r \in ServerReplies(call[c].req) :
         call' = [call EXCEPT ![c] = RetryResponseGiven(call[c], r)]
    /\ UNCHANGED <<accessToken, refreshToken, outputFormat, clientSecret, minted, srv, tool, bind, norm, tree,
                   match, drive, reg, dl, listChildren>>

\* ------------------------------------- GraphClient.formatJsonResponse etc.
\* serializeData: the text of a value in the given format. JSON.parse gives the
\* value back from JSON text and throws on TOON text.
Serialize(data, fmt) == [fmt |-> fmt, data |-> data]
Parses(text) == text.fmt = "json"
Parse(text)  == text.data

\* An McpResponse / CallToolResult: the text of content[0], isError and _meta.
NoMeta == EmptyObj
McpResponse(text, isError, meta) == [text |-> text, isError |-> isError, meta |-> meta]

\* The keys whose value is an object, and those whose value is an array of
\* objects: typeof obj[key] === 'object' holds for them. Every other key holds a
\* primitive value or an array of primitive values, in which there is no key
\* to delete.
K_nested  == Key("nested")
K_entries == Key("entries")

\* removeODataProps that does not descend into nested values.
removeODataProps_TopLevelOnly(obj) ==
    [k \in { x \in DOMAIN obj : x[1] # ODataPrefix } |-> obj[k]]

\* removeODataProps: every key that starts with '@odata.' is deleted, and every
\* other value that is an object or an array is descended into.
RECURSIVE removeODataProps(_)
removeODataProps(obj) ==
    [k \in { x \in DOMAIN obj : x[1] # ODataPrefix } |->
        CASE k = K_nested  -> removeODataProps(obj[k])
          [] k = K_entries -> [i \in DOMAIN obj[k] |-> removeODataProps(obj[k][i])]
          [] OTHER         -> obj[k]]

\* formatJsonResponse(data, rawResponse, excludeResponse) in format fmt.
formatJsonResponse(data, rawResponse, excludeResponse, fmt) ==
    IF excludeResponse
    THEN McpResponse(Serialize((K_success :> TRUE), fmt), FALSE, NoMeta)
    ELSE IF Has(data, K_headers)
    THEN LET meta == (IF Has(data, K_etag) THEN (Key("etag") :> data[K_etag]) ELSE EmptyObj)
                     @@ (Key("headers") :> data[K_headers])
             inner == IF Has(data, Key("data")) THEN data[Key("data")] ELSE (K_success :> TRUE)
         IN  IF rawResponse
             THEN McpResponse(Serialize(inner, fmt), FALSE, meta)
             ELSE McpResponse(Serialize(removeODataProps(inner), fmt), FALSE, meta)
    ELSE IF rawResponse
    THEN McpResponse(Serialize(data, fmt), FALSE, NoMeta)
    ELSE McpResponse(Serialize(removeODataProps(data), fmt), FALSE, NoMeta)

\* graphRequest lines 246-257, once makeRequest has ended with outcome o: the
\* formatted result, or an error result {error: message} with isError.
graphRequestResult(o, options, fmt) ==
    IF o.kind = "return"
    THEN formatJsonResponse(o.value, options.rawResponse, options.excludeResponse, fmt)
    ELSE McpResponse(Serialize((K_error :> o.error), "json"), TRUE, NoMeta)

\* ----------------------------------------------------------- executeGraphTool
ToolPath == "/items"

ToolIdle ==
    [pc |-> "idle", fetchAllPages |-> FALSE,
     options |-> Options(Null, Null, FALSE, FALSE, FALSE, NoQuery),
     response |-> McpResponse(Serialize(EmptyObj, "json"), FALSE, NoMeta),
     combined |-> EmptyObj, allItems |-> <<>>, nextLink |-> <<>>, pageCount |-> 0,
     caught |-> FALSE, fetched |-> 0, fatal |-> FALSE, proper |-> TRUE, first |-> EmptyObj,
     followed |-> <<>>, via |-> "",
     result |-> McpResponse(Serialize(EmptyObj, "json"), FALSE, NoMeta)]

\* The response a finished makeRequest kept is the page its request addressed,
\* as the service holds it.
ProperReply(cl) ==
    /\ cl.outcome.kind = "return"
    /\ ~cl.last.net
    /\ cl.last.status = 200
    /\ cl.last.text \in { JsonText(PageBody(cl.req.path, PageIndex(cl.req), c)) : c \in BOOLEAN }

\* lines 183-221: the options of the call. A media-content endpoint asks for the
\* raw response; the control keys includeHeaders / excludeResponse are copied.
ToolOptions(media, incl, excl) == Options(Null, Null, media, incl, excl, NoQuery)

\* lines 230-231: combinedResponse.value || [] and combinedResponse['@odata.nextLink'].
ItemsOf(obj) == IF Has(obj, K_value) THEN obj[K_value] ELSE <<>>
LinkOf(obj)  == IF Has(obj, K_nextLink) THEN <<obj[K_nextLink]>> ELSE <<>>

\* MorePages with the ceiling off by one.
MorePages_OffByOne(nextLink, pageCount) == nextLink # <<>> /\ pageCount <= MaxPages

\* line 234: while (nextLink && pageCount < 100)
MorePages(nextLink, pageCount) == nextLink # <<>> /\ pageCount < MaxPages

\* lines 237-245: the follow-up request of a cursor. nextPath is the pathname of
\* the cursor's URL, and that alone is the endpoint; the cursor's query
\* parameters go into nextOptions.queryParams.
FollowUp(cursor, options) ==
    [endpoint |-> Endpoint(cursor.path, NoQuery),
     options  |-> [options EXCEPT !.queryParams = cursor.query]]

\* lines 264-270: the aggregate replaces the first page's text.
Aggregate(combined, allItems) ==
    LET c1 == With(combined, K_value, allItems)
        c2 == IF Has(c1, K_count) /\ c1[K_count] # 0
              THEN With(c1, K_count, Len(allItems)) ELSE c1
    IN  Serialize(Without(c2, K_nextLink), "json")

\* lines 298-307: the result handed to the caller.
ToolResult(response) == McpResponse(response.text, response.isError, response.meta)

\* The loop head of lines 234-247 and what follows the loop, for a tool state t in
\* the try block: either the next follow-up request is issued (new URL() may
\* throw, which the catch of line 275 takes), or the aggregate is written and
\* the result returned. Gives the tool state and the call.
LoopHead(t, cl, mt) ==
    IF MorePages(t.nextLink, t.pageCount)
    THEN LET cursor == t.nextLink[1] IN
         IF ~cursor.ok
         THEN [tool |-> [t EXCEPT !.pc = "done", !.caught = TRUE,
                                  !.result = ToolResult(t.response)],
               call |-> cl]
         ELSE LET f == FollowUp(cursor, t.options)
              IN  [tool |-> [t EXCEPT !.pc = "paging", !.fetched = @ + 1,
                                      !.followed = <<cursor>>],
                   call |-> MakeRequestStart(f.endpoint, f.options, mt)]
    ELSE LET r == [t.response EXCEPT !.text = Aggregate(t.combined, t.allItems)]
         IN  [tool |-> [t EXCEPT !.pc = "done", !.response = r, !.result = ToolResult(r)],
              call |-> cl]

\* lines 90-224: the parameters are bound and the first request is issued.
Invoke ==
    /\ tool.pc = "idle"
    /\ \A c \in CallIds : call[c].pc = "idle"
    /\ \E fetchAll \in BOOLEAN, media \in BOOLEAN, incl \in BOOLEAN, excl \in BOOLEAN,
          mt \in ManagerTokens(accessToken) :
         LET options == ToolOptions(media, incl, excl)
             q == OrigQuery IN
         /\ tool' = [ToolIdle EXCEPT !.pc = "first", !.fetchAllPages = fetchAll,
                                     !.options = options, !.fetched = 1]
         /\ call' = [call EXCEPT ![1] = MakeRequestStart(Endpoint(ToolPath, q), options, mt)]
    /\ UNCHANGED <<accessToken, refreshToken, outputFormat, clientSecret, minted, srv, bind, norm, tree,
                   match, drive, reg, dl, listChildren>>

\* lines 224-307, when the first graphRequest has returned: without fetchAllPages
\* the response is the result; with it the first page is parsed (a throw leaves
\* the response as it is) and the loop is entered.
FirstPage ==
    /\ tool.pc = "first"
    /\ call[1].pc = "done"
    /\ \E mt \in ManagerTokens(accessToken) :
       LET response == graphRequestResult(call[1].outcome, tool.options, outputFormat)
           t0 == [tool EXCEPT !.response = response,
                              !.fatal = (call[1].outcome.kind = "throw"),
                              !.proper = ProperReply(call[1]),
                              !.first = IF call[1].outcome.kind = "return"
                                        THEN call[1].outcome.value ELSE EmptyObj]
           next ==
             IF ~tool.fetchAllPages
             THEN [tool |-> [t0 EXCEPT !.pc = "done", !.result = ToolResult(response)],
                   call |-> IdleCall]
             ELSE IF ~Parses(response.text)
             THEN [tool |-> [t0 EXCEPT !.pc = "done", !.caught = TRUE,
                                       !.result = ToolResult(response)],
                   call |-> IdleCall]
             ELSE LET combined == Parse(response.text)
                  IN  LoopHead([t0 EXCEPT !.combined = combined,
                                          !.allItems = ItemsOf(combined),
                                          !.nextLink = LinkOf(combined),
                                          !.pageCount = 1],
                               IdleCall, mt)
       IN  /\ tool' = next.tool
           /\ call' = [call EXCEPT ![1] = next.call]
    /\ UNCHANGED <<accessToken, refreshToken, outputFormat, clientSecret, minted, srv, bind, norm, tree,
                   match, drive, reg, dl, listChildren>>

\* lines 247-270, when a follow-up graphRequest has returned: its items are
\* appended, its cursor taken, the page counted, and the loop head is run again.
NextPage ==
    /\ tool.pc = "paging"
    /\ call[1].pc = "done"
    /\ \E mt \in ManagerTokens(accessToken) :
       LET nextResponse == graphRequestResult(call[1].outcome, call[1].options, outputFormat)
           t0 == [tool EXCEPT !.fatal = (@ \/ call[1].outcome.kind = "throw"),
                              !.proper = (@ /\ ProperReply(call[1]))]
           next ==
             IF ~Parses(nextResponse.text)
             THEN [tool |-> [t0 EXCEPT !.pc = "done", !.caught = TRUE,
                                       !.result = ToolResult(t0.response)],
                   call |-> IdleCall]
             ELSE LET page == Parse(nextResponse.text)
                  IN  LoopHead([t0 EXCEPT !.allItems = @ \o ItemsOf(page),
                                          !.nextLink = LinkOf(page),
                                          !.pageCount = @ + 1],
                               IdleCall, mt)
       IN  /\ tool' = next.tool
           /\ call' = [call EXCEPT ![1] = next.call]
    /\ UNCHANGED <<accessToken, refreshToken, outputFormat, clientSecret, minted, srv, bind, norm, tree,
                   match, drive, reg, dl, listChildren>>

\* ------------------------------------------------------------ the session
\* The remote collections the service may hold: n pages of any sizes.
RECURSIVE SumTo(_, _)
SumTo(f, n) == IF n = 0 THEN 0 ELSE f[n] + SumTo(f, n - 1)
Servers ==
    UNION { { [n |-> n, size |-> sz, total |-> SumTo(sz, n)] : sz \in [1..n -> PageSizes] }
            : n \in 1..MaxServerPages }

\* The state after new GraphClient(authManager, outputFormat).
Init ==
    /\ accessToken = Null
    /\ refreshToken = Null
    /\ outputFormat \in {"json", "toon"}
    /\ clientSecret \in BOOLEAN
    /\ minted = 0
    /\ call = [c \in CallIds |-> IdleCall]
    /\ srv \in Servers
    /\ tool = ToolIdle
    /\ bind = [pc |-> "idle"]
    /\ norm = [pc |-> "idle"]
    /\ tree = [pc |-> "idle"]
    /\ match = [pc |-> "idle"]
    /\ drive = [pc |-> "idle"]
    /\ reg = [pc |-> "idle"]
    /\ dl = [pc |-> "idle"]
    /\ listChildren = [pc |-> "idle"]

\* setOAuthTokens(accessToken, refreshToken?), before the first request.
setOAuthTokens(at, rt) ==
    /\ accessToken = Null
    /\ \A c \in CallIds : call[c].pc = "idle"
    /\ tool.pc = "idle"
    /\ accessToken' = at
    /\ refreshToken' = OrElse(rt, Null)
    /\ UNCHANGED <<outputFormat, clientSecret, minted, call, srv, tool, bind, norm, tree,
                   match, drive, reg, dl, listChildren>>

InstallTokens == \E rt \in {Null, SessionRT} : setOAuthTokens(SessionAT, rt)

\* A caller invokes makeRequest(endpoint, options) directly.
StartCall(c) ==
    /\ call[c].pc = "idle"
    /\ tool.pc = "idle"
    /\ \E at \in {Null, OptionAT}, rt \in {Null, OptionRT}, incl \in BOOLEAN :
       \E mt \in ManagerTokens(OrElse(at, accessToken)) :
         call' = [call EXCEPT ![c] =
                    MakeRequestStart(Endpoint("/items", OrigQuery),
                                     Options(at, rt, FALSE, incl, FALSE, NoQuery), mt)]
    /\ UNCHANGED <<accessToken, refreshToken, outputFormat, clientSecret, minted, srv, tool, bind, norm, tree,
                   match, drive, reg, dl, listChildren>>

\* The caller takes the outcome of a finished makeRequest.
CallReturns(c) ==
    /\ call[c].pc = "done"
    /\ tool.pc = "idle"
    /\ call' = [call EXCEPT ![c] = IdleCall]
    /\ UNCHANGED <<accessToken, refreshToken, outputFormat, clientSecret, minted, srv, tool, bind, norm, tree,
                   match, drive, reg, dl, listChildren>>

\* One caller at a time uses makeRequest.
NextRetry ==
    \/ InstallTokens
    \/ StartCall(1)
    \/ FirstResponse(1)
    \/ RefreshResponse(1)
    \/ RetryResponse(1)
    \/ CallReturns(1)

SpecRetry == Init /\ [][NextRetry]_vars

\* One executeGraphTool invocation on the session.
Next ==
    \/ InstallTokens
    \/ Invoke
    \/ FirstResponse(1)
    \/ RefreshResponse(1)
    \/ RetryResponse(1)
    \/ FirstPage
    \/ NextPage

Spec == Init /\ [][Next]_vars

\* One executeGraphTool invocation in which every request and every refresh is
\* answered and the code runs on after each answer.
Answered ==
    \/ FirstResponse(1)
    \/ RefreshResponse(1)
    \/ RetryResponse(1)
    \/ FirstPage
    \/ NextPage

\* The session of that invocation: a client for JSON output with the client
\* secret configured, after setOAuthTokens(access, refresh), and a service with
\* two pages of one item.
InitLive ==
    /\ outputFormat = "json"
    /\ clientSecret = TRUE
    /\ srv = [n |-> 2, size |-> <<1, 1>>, total |-> 2]
    /\ accessToken = SessionAT
    /\ refreshToken = SessionRT
    /\ minted = 0
    /\ call = [c \in CallIds |-> IdleCall]
    /\ tool = ToolIdle
    /\ bind = [pc |-> "idle"]
    /\ norm = [pc |-> "idle"]
    /\ tree = [pc |-> "idle"]
    /\ match = [pc |-> "idle"]
    /\ drive = [pc |-> "idle"]
    /\ reg = [pc |-> "idle"]
    /\ dl = [pc |-> "idle"]
    /\ listChildren = [pc |-> "idle"]

\* An invocation without the includeHeaders option: it adds a key to what a
\* response reads as and changes none of the requests that follow.
InvokePlain ==
    /\ Invoke
    /\ ~tool'.options.includeHeaders

NextLive ==
    \/ InvokePlain
    \/ Answered

SpecLive == InitLive /\ [][NextLive]_vars /\ WF_vars(Answered)

\* ------------------------------------------- two callers on one session
\* refreshAccessToken lines 193-207, from the reply of the token endpoint on: a
\* failure throws out of makeRequest, a grant replaces the session's tokens and
\* refreshAccessToken returns; makeRequest has not resumed yet.
RefreshCompletes(c) ==
    /\ call[c].pc = "refresh"
    /\ \E g \in TokenReplies :
         IF ~g.ok
         THEN /\ call' = [call EXCEPT ![c].pc = "done",
                                      ![c].outcome = Thrown(OtherError("Failed to refresh token"))]
              /\ UNCHANGED <<accessToken, refreshToken, minted>>
         ELSE LET s == SessionAfterRefresh(g)
              IN  /\ accessToken' = s.accessToken
                  /\ refreshToken' = s.refreshToken
                  /\ minted' = minted + 1
                  /\ call' = [call EXCEPT ![c].pc = "refreshed", ![c].grant = g]
    /\ UNCHANGED <<outputFormat, clientSecret, srv, tool, bind, norm, tree,
                   match, drive, reg, dl, listChildren>>

\* makeRequest lines 72-81: makeRequest resumes after the await of the refresh,
\* reads the session's access token and issues the request again.
ResumeAfterRefresh(c) ==
    /\ call[c].pc = "refreshed"
    /\ LET at == RetryToken(accessToken, call[c].at)
       IN  call' = [call EXCEPT ![c].pc = "attempt2", ![c].at = at,
                                ![c].req = performRequest(call[c].endpoint, at, call[c].options),
                                ![c].attempts = 2,
                                ![c].sent = Append(call[c].sent, at)]
    /\ UNCHANGED <<accessToken, refreshToken, outputFormat, clientSecret, minted, srv, tool,
                   bind, norm, tree, match, drive, reg, dl, listChildren>>

\* A caller invokes makeRequest(endpoint, options) with no tokens of its own in
\* the options: the call runs on the tokens of the session.
StartSessionCall(c) ==
    /\ call[c].pc = "idle"
    /\ tool.pc = "idle"
    /\ \E mt \in ManagerTokens(accessToken) :
         call' = [call EXCEPT ![c] =
                    MakeRequestStart(Endpoint("/items", OrigQuery),
                                     Options(Null, Null, FALSE, FALSE, FALSE, NoQuery), mt)]
    /\ UNCHANGED <<accessToken, refreshToken, outputFormat, clientSecret, minted, srv, tool,
                   bind, norm, tree, match, drive, reg, dl, listChildren>>

\* The session of the two callers: a client for JSON output and a service with
\* one page.
InitRace ==
    /\ Init
    /\ outputFormat = "json"
    /\ srv = [n |-> 1, size |-> <<1>>, total |-> 1]

\* Two callers use makeRequest on the session at the same time; every await is
\* a point where the other caller may run.
NextRace ==
    \/ InstallTokens
    \/ \E c \in CallIds : StartSessionCall(c)
    \/ \E c \in CallIds : FirstResponse(c)
    \/ \E c \in CallIds : RefreshCompletes(c)
    \/ \E c \in CallIds : ResumeAfterRefresh(c)
    \/ \E c \in CallIds : RetryResponse(c)

SpecRace == InitRace /\ [][NextRace]_vars

\* ------------------------------------------------- the two invocation paths
\* The methods of the catalog's endpoints (tool.method.toUpperCase()).
Methods == {"GET", "POST"}

\* registerGraphTools lines 679-684: the schema of a registered tool has the key
\* fetchAllPages for a GET endpoint only (every catalog path contains '/').
SchemaOffersFetchAllPages(method) == method = "GET"

\* executeGraphTool lines 183-224 for an endpoint of the given method: the
\* options carry the endpoint's method and the first request is issued.
InvokeWith(via, method, fetchAll, media, incl, excl, mt) ==
    LET options == [ToolOptions(media, incl, excl) EXCEPT !.method = method] IN
    /\ tool' = [ToolIdle EXCEPT !.pc = "first", !.fetchAllPages = fetchAll,
                                !.options = options, !.fetched = 1, !.via = via]
    /\ call' = [call EXCEPT ![1] = MakeRequestStart(Endpoint(ToolPath, OrigQuery), options, mt)]

\* The handler of a registered tool (line 724). Its parameters are the ones the
\* tool's schema has, so fetchAllPages reaches it for a GET endpoint only.
DirectTool ==
    /\ tool.pc = "idle"
    /\ \A c \in CallIds : call[c].pc = "idle"
    /\ \E method \in Methods, fetchAll \in BOOLEAN, media \in BOOLEAN, incl \in BOOLEAN,
          excl \in BOOLEAN, mt \in ManagerTokens(accessToken) :
         InvokeWith("direct", method, fetchAll /\ SchemaOffersFetchAllPages(method),
                    media, incl, excl, mt)
    /\ UNCHANGED <<accessToken, refreshToken, outputFormat, clientSecret, minted, srv, bind, norm, tree,
                   match, drive, reg, dl, listChildren>>

\* The handler of execute-tool (lines 1114-1132): the named tool is looked up in
\* the registry; an unknown name is answered with an error, a known one is
\* executed with the caller's parameter map as it is.
ExecuteTool ==
    /\ tool.pc = "idle"
    /\ \A c \in CallIds : call[c].pc = "idle"
    /\ \/ /\ tool' = [ToolIdle EXCEPT !.pc = "done", !.via = "execute-tool",
                         !.result = McpResponse(Serialize((K_error :> OtherError("Tool not found")),
                                                          "json"), TRUE, NoMeta)]
          /\ UNCHANGED call
       \/ \E method \in Methods, fetchAll \in BOOLEAN, media \in BOOLEAN, incl \in BOOLEAN,
             excl \in BOOLEAN, mt \in ManagerTokens(accessToken) :
            InvokeWith("execute-tool", method, fetchAll, media, incl, excl, mt)
    /\ UNCHANGED <<accessToken, refreshToken, outputFormat, clientSecret, minted, srv, bind, norm, tree,
                   match, drive, reg, dl, listChildren>>

\* One invocation of a catalog tool, by its own handler or through execute-tool.
NextDispatch ==
    \/ InstallTokens
    \/ DirectTool
    \/ ExecuteTool
    \/ FirstResponse(1)
    \/ RefreshResponse(1)
    \/ RetryResponse(1)
    \/ FirstPage
    \/ NextPage

SpecDispatch == Init /\ [][NextDispatch]_vars

\* ------------------------------------------------------------------ strings
\* A string is the sequence of its characters, so that startsWith, slice,
\* toLowerCase, replace and encodeURIComponent are computed on it.
UpperCase == <<"A", "B", "C", "D", "E", "F", "G", "H", "I", "J", "K", "L", "M",
               "N", "O", "P", "Q", "R", "S", "T", "U", "V", "W", "X", "Y", "Z">>
LowerCase == <<"a", "b", "c", "d", "e", "f", "g", "h", "i", "j", "k", "l", "m",
               "n", "o", "p", "q", "r", "s", "t", "u", "v", "w", "x", "y", "z">>
Digits    == <<"0", "1", "2", "3", "4", "5", "6", "7", "8", "9">>
Range(f)  == { f[i] : i \in DOMAIN f }

\* String.prototype.toLowerCase
LowerChar(c) ==
    IF c \in Range(UpperCase)
    THEN LowerCase[CHOOSE i \in DOMAIN UpperCase : UpperCase[i] = c]
    ELSE c
toLowerCase(s) == [i \in DOMAIN s |-> LowerChar(s[i])]

\* String.prototype.startsWith / endsWith / slice(1)
startsWith(s, p) == Len(s) >= Len(p) /\ SubSeq(s, 1, Len(p)) = p
endsWith(s, p)   == Len(s) >= Len(p) /\ SubSeq(s, Len(s) - Len(p) + 1, Len(s)) = p
slice1(s)        == SubSeq(s, 2, Len(s))

\* String.prototype.indexOf, counted from 1; 0 when p does not occur in s.
indexOf(s, p) ==
    LET hits == { i \in 1..(Len(s) - Len(p) + 1) : SubSeq(s, i, i + Len(p) - 1) = p }
    IN  IF hits = {} THEN 0 ELSE CHOOSE i \in hits : \A j \in hits : i <= j
includes(s, p) == indexOf(s, p) # 0

\* String.prototype.replace(pattern, replacement) with a string pattern: the
\* first occurrence of the pattern is replaced, the others stay.
replace(s, p, r) ==
    LET i == indexOf(s, p)
    IN  IF i = 0 THEN s
        ELSE SubSeq(s, 1, i - 1) \o r \o SubSeq(s, i + Len(p), Len(s))

\* A UTF-16 surrogate with no partner: a JSON document may carry one ("\ud800").
LoneSurrogate == "\\uD800"

\* encodeURIComponent: the unreserved characters stay, every other character is
\* percent-encoded, and a lone surrogate makes it throw URIError.
Unreserved ==
    Range(UpperCase) \cup Range(LowerCase) \cup Range(Digits)
    \cup {"-", "_", ".", "!", "~", "*", "'", "(", ")"}
PercentCode(c) ==
    CASE c = " "  -> <<"%", "2", "0">>
      [] c = "\"" -> <<"%", "2", "2">>
      [] c = "#"  -> <<"%", "2", "3">>
      [] c = "$"  -> <<"%", "2", "4">>
      [] c = "%"  -> <<"%", "2", "5">>
      [] c = "&"  -> <<"%", "2", "6">>
      [] c = "+"  -> <<"%", "2", "B">>
      [] c = ","  -> <<"%", "2", "C">>
      [] c = "/"  -> <<"%", "2", "F">>
      [] c = ":"  -> <<"%", "3", "A">>
      [] c = ";"  -> <<"%", "3", "B">>
      [] c = "<"  -> <<"%", "3", "C">>
      [] c = "="  -> <<"%", "3", "D">>
      [] c = ">"  -> <<"%", "3", "E">>
      [] c = "?"  -> <<"%", "3", "F">>
      [] c = "@"  -> <<"%", "4", "0">>
      [] c = "["  -> <<"%", "5", "B">>
      [] c = "]"  -> <<"%", "5", "D">>
      [] c = "{"  -> <<"%", "7", "B">>
      [] c = "}"  -> <<"%", "7", "D">>
EncodeThrows(s) == \E i \in DOMAIN s : s[i] = LoneSurrogate
RECURSIVE encodeURIComponent(_)
encodeURIComponent(s) ==
    IF s = <<>> THEN <<>>
    ELSE (IF Head(s) \in Unreserved THEN <<Head(s)>> ELSE PercentCode(Head(s)))
         \o encodeURIComponent(Tail(s))

\* ------------------------------------- executeGraphTool: parameter binding
\* How many entries the caller's parameter map has at most.
MaxParams == 2

\* line 100: the control keys.
N_fetchAllPages   == <<"f", "e", "t", "c", "h", "A", "l", "l", "P", "a", "g", "e", "s">>
N_includeHeaders  == <<"i", "n", "c", "l", "u", "d", "e", "H", "e", "a", "d", "e", "r", "s">>
N_excludeResponse == <<"e", "x", "c", "l", "u", "d", "e", "R", "e", "s", "p", "o", "n", "s", "e">>
N_timezone        == <<"t", "i", "m", "e", "z", "o", "n", "e">>
ControlKeys == {N_fetchAllPages, N_includeHeaders, N_excludeResponse, N_timezone}

\* lines 106-116: the reserved query names.
odataParams ==
    { <<"f", "i", "l", "t", "e", "r">>,
      <<"s", "e", "l", "e", "c", "t">>,
      <<"e", "x", "p", "a", "n", "d">>,
      <<"o", "r", "d", "e", "r", "b", "y">>,
      <<"s", "k", "i", "p">>, <<"t", "o", "p">>,
      <<"c", "o", "u", "n", "t">>,
      <<"s", "e", "a", "r", "c", "h">>,
      <<"f", "o", "r", "m", "a", "t">> }

N_id    == <<"i", "d">>
N_top   == <<"t", "o", "p">>
N_body  == <<"b", "o", "d", "y">>
N_other == <<"z", "z">>
N_Prefer == <<"P", "r", "e", "f", "e", "r">>
Dollar(name) == <<"$">> \o name

\* Values of the parameter map: strings and booleans; a string may hold a lone
\* surrogate.
StringValue(s) == [t |-> "string",  s |-> s]
BoolValue(b)   == [t |-> "boolean", s |-> IF b THEN <<"t", "r", "u", "e">> ELSE <<"f", "a", "l", "s", "e">>]
Values == { StringValue(<<"a", "/">>), StringValue(<<"a", LoneSurrogate>>), BoolValue(TRUE) }

\* `${paramValue}` and the string coercion of encodeURIComponent's argument.
ToStr(v) == v.s
\* The truthiness of a value.
Truthy(v) == IF v.t = "string" THEN v.s # <<>> ELSE v.s = <<"t", "r", "u", "e">>

\* A parameter definition of the catalog. Of its schema only safeParse's verdicts
\* matter: on the value itself (raw) and on {name: value} (wrapped).
NoSchema == [given |-> FALSE, raw |-> FALSE, wrapped |-> FALSE]
Schema(raw, wrapped) == [given |-> TRUE, raw |-> raw, wrapped |-> wrapped]
ParamDef(name, type, schema) == [name |-> name, type |-> type, schema |-> schema]
ParamTypes == {"Path", "Query", "Body", "Header"}

\* A catalog endpoint and its entry of endpoints.json.
Tool(path, method, parameters, media) ==
    [path |-> path, method |-> method, parameters |-> parameters, media |-> media]
EndpointConfig(supportsTimezone, returnDownloadUrl) ==
    [supportsTimezone |-> supportsTimezone, returnDownloadUrl |-> returnDownloadUrl]

\* The body being bound: null, a value, or a value wrapped as {name: value}.
NoBody == [kind |-> "null", name |-> <<>>, value |-> StringValue(<<>>)]
BodyValue(v) == [kind |-> "value", name |-> <<>>, value |-> v]
BodyWrapped(name, v) == [kind |-> "wrapped", name |-> name, value |-> v]
BodyTruthy(b) == b.kind = "wrapped" \/ (b.kind = "value" /\ Truthy(b.value))

\* obj[key] = value on an object kept as the sequence of its entries, in
\* insertion order.
SetEntry(obj, key, value) ==
    IF \E i \in DOMAIN obj : obj[i][1] = key
    THEN [i \in DOMAIN obj |-> IF obj[i][1] = key THEN <<key, value>> ELSE obj[i]]
    ELSE Append(obj, <<key, value>>)
HasEntry(obj, key) == \E i \in DOMAIN obj : obj[i][1] = key
EntryOf(obj, key) == obj[CHOOSE i \in DOMAIN obj : obj[i][1] = key][2]

\* lines 93-96: the binding before the loop.
BindingStart(td) ==
    [path |-> td.path, queryParams |-> <<>>, headers |-> <<>>, body |-> NoBody,
     threw |-> FALSE]

\* line 118: paramName.startsWith('$') ? paramName.slice(1) : paramName
normalizedParamName(paramName) ==
    IF startsWith(paramName, <<"$">>) THEN slice1(paramName) ELSE paramName

\* line 119: odataParams.includes(normalizedParamName.toLowerCase())
isOdataParam(paramName) == toLowerCase(normalizedParamName(paramName)) \in odataParams

\* fixedParamName with the name kept as the caller wrote it.
fixedParamName_AsSupplied(paramName) == paramName

\* line 120: isOdataParam ? `$${normalizedParamName.toLowerCase()}` : paramName
fixedParamName(paramName) ==
    IF isOdataParam(paramName)
    THEN Dollar(toLowerCase(normalizedParamName(paramName)))
    ELSE paramName

\* lines 122-124: parameterDefinitions.find(...), as the indices that match; the
\* first of them is the definition found.
MatchingDefs(parameters, paramName) ==
    { i \in DOMAIN parameters :
        \/ parameters[i].name = paramName
        \/ (isOdataParam(paramName) /\ parameters[i].name = normalizedParamName(paramName)) }
FirstOf(S) == CHOOSE i \in S : \A j \in S : i <= j

\* IsControlKey without the key timezone.
IsControlKey_WithoutTimezone(paramName) ==
    paramName \in {N_fetchAllPages, N_includeHeaders, N_excludeResponse}

\* line 100: ['fetchAllPages', 'includeHeaders', 'excludeResponse', 'timezone'].includes(paramName)
IsControlKey(paramName) == paramName \in ControlKeys

\* BindBody with every value the schema rejects wrapped, whatever the schema
\* says of the wrapped form.
BindBody_WrapsOnFailure(paramDef, paramName, paramValue) ==
    IF paramDef.schema.given /\ ~paramDef.schema.raw
    THEN BodyWrapped(paramName, paramValue)
    ELSE BodyValue(paramValue)

\* lines 138-158: the body a Body parameter gives. A value its schema rejects is
\* wrapped as {paramName: value} when the schema accepts that.
BindBody(paramDef, paramName, paramValue) ==
    IF paramDef.schema.given /\ ~paramDef.schema.raw /\ paramDef.schema.wrapped
    THEN BodyWrapped(paramName, paramValue)
    ELSE BodyValue(paramValue)

\* lines 99-167: one turn of the loop over Object.entries(params).
BindOne(st, parameters, paramName, paramValue) ==
    IF IsControlKey(paramName) THEN st
    ELSE LET found == MatchingDefs(parameters, paramName) IN
         IF found # {}
         THEN LET paramDef == parameters[FirstOf(found)] IN
              CASE paramDef.type = "Path" ->
                     IF EncodeThrows(ToStr(paramValue))
                     THEN [st EXCEPT !.threw = TRUE]
                     ELSE LET enc == encodeURIComponent(ToStr(paramValue)) IN
                          [st EXCEPT !.path =
                              replace(replace(@, <<"{">> \o paramName \o <<"}">>, enc),
                                      <<":">> \o paramName, enc)]
                [] paramDef.type = "Query" ->
                     [st EXCEPT !.queryParams =
                         SetEntry(@, fixedParamName(paramName), ToStr(paramValue))]
                [] paramDef.type = "Body" ->
                     [st EXCEPT !.body = BindBody(paramDef, paramName, paramValue)]
                [] paramDef.type = "Header" ->
                     [st EXCEPT !.headers =
                         SetEntry(@, fixedParamName(paramName), ToStr(paramValue))]
                [] OTHER -> st
         ELSE IF paramName = N_body
         THEN [st EXCEPT !.body = BodyValue(paramValue)]
         ELSE st

\* lines 98-168: the loop, from entry i on; a throw ends it.
RECURSIVE BindLoop(_, _, _, _)
BindLoop(st, parameters, params, i) ==
    IF i > Len(params) \/ st.threw THEN st
    ELSE BindLoop(BindOne(st, parameters, params[i][1], params[i][2]),
                  parameters, params, i + 1)

\* lines 170-174: the Prefer header of a caller-supplied timezone.
WithTimezone(headers, config, params) ==
    IF config.supportsTimezone /\ HasEntry(params, N_timezone)
       /\ Truthy(EntryOf(params, N_timezone))
    THEN SetEntry(headers, N_Prefer,
                  <<"o", "u", "t", "l", "o", "o", "k", ".", "t", "i", "m", "e", "z", "o", "n", "e", "=", "\"">> \o ToStr(EntryOf(params, N_timezone)) \o <<"\"">>)
    ELSE headers

\* lines 177-179: key=value of every entry, percent-encoded, joined with '&'.
RECURSIVE QueryString(_)
QueryString(queryParams) ==
    IF queryParams = <<>> THEN <<>>
    ELSE encodeURIComponent(queryParams[1][1]) \o <<"=">> \o encodeURIComponent(queryParams[1][2])
         \o (IF Len(queryParams) > 1 THEN <<"&">> \o QueryString(Tail(queryParams)) ELSE <<>>)

\* lines 176-181: the query string is appended to the path.
WithQuery(path, queryParams) ==
    IF queryParams = <<>> THEN path
    ELSE path \o (IF includes(path, <<"?">>) THEN <<"&">> ELSE <<"?">>) \o QueryString(queryParams)

\* The access token makeRequest has selected for the attempt, as text.
AccessTokenText == <<"t", "o", "k">>
N_Authorization == <<"A", "u", "t", "h", "o", "r", "i", "z", "a", "t", "i", "o", "n">>
N_authorization == <<"a", "u", "t", "h", "o", "r", "i", "z", "a", "t", "i", "o", "n">>
N_ContentType   == <<"C", "o", "n", "t", "e", "n", "t", "-", "T", "y", "p", "e">>
N_IfMatch       == <<"I", "f", "-", "M", "a", "t", "c", "h">>

\* `Bearer ${accessToken}`
Bearer(accessTokenText) == <<"B", "e", "a", "r", "e", "r", " ">> \o accessTokenText

\* { ...a, ...b } of JavaScript on objects kept as sequences of entries: the
\* entries of b are set on a, in order.
RECURSIVE Spread(_, _)
Spread(a, b) ==
    IF b = <<>> THEN a ELSE Spread(SetEntry(a, b[1][1], b[1][2]), Tail(b))

\* graph-client.ts performRequest lines 216-220: the headers object handed to
\* fetch: Authorization and Content-Type, then the headers of the options
\* spread over them.
RequestHeaders(accessTokenText, headers) ==
    Spread(<< <<N_Authorization, Bearer(accessTokenText)>>,
              <<N_ContentType, <<"a", "p", "p", "l", "i", "c", "a", "t", "i", "o", "n", "/", "j", "s", "o", "n">>>> >>,
           headers)

\* What fetch sends under a header name (line 222): header names are matched
\* with the case ignored, and the values given under one name are joined with
\* ', ' in the order of the entries. <<>> when the name is not sent at all.
RECURSIVE HeaderSent(_, _)
HeaderSent(init, name) ==
    IF init = <<>> THEN <<>>
    ELSE LET rest == HeaderSent(Tail(init), name)
         IN  IF toLowerCase(init[1][1]) = toLowerCase(name)
             THEN IF rest = <<>> THEN init[1][2] ELSE init[1][2] \o <<",", " ">> \o rest
             ELSE rest

\* The options no request was built with.
NoBodyText == [present |-> FALSE, verbatim |-> FALSE, of |-> NoBody]
NoBinding ==
    [threw |-> FALSE, path |-> <<>>, queryParams |-> <<>>, method |-> "", headers |-> <<>>,
     body |-> NoBodyText, rawResponse |-> FALSE, includeHeaders |-> FALSE,
     excludeResponse |-> FALSE]

\* lines 90-221: the path and the options of the request, or a throw.
BindParams(td, config, params) ==
    LET st == BindLoop(BindingStart(td), td.parameters, params, 1) IN
    IF st.threw \/ \E i \in DOMAIN st.queryParams :
                      EncodeThrows(st.queryParams[i][1]) \/ EncodeThrows(st.queryParams[i][2])
    THEN [NoBinding EXCEPT !.threw = TRUE]
    ELSE LET path1  == WithQuery(st.path, st.queryParams)
             method == td.method
             body   == IF method # "GET" /\ BodyTruthy(st.body)
                       THEN [present |-> TRUE,
                             verbatim |-> (st.body.kind = "value" /\ st.body.value.t = "string"),
                             of |-> st.body]
                       ELSE NoBodyText
             isProbablyMediaContent == td.media \/ endsWith(path1, <<"/", "c", "o", "n", "t", "e", "n", "t">>)
             strip  == config.returnDownloadUrl /\ endsWith(path1, <<"/", "c", "o", "n", "t", "e", "n", "t">>)
         IN  [threw |-> FALSE,
              path |-> IF strip THEN SubSeq(path1, 1, Len(path1) - 8) ELSE path1,
              queryParams |-> st.queryParams,
              method |-> method,
              headers |-> WithTimezone(st.headers, config, params),
              body |-> body,
              rawResponse |-> (~strip /\ isProbablyMediaContent),
              includeHeaders |-> (HasEntry(params, N_includeHeaders)
                                  /\ EntryOf(params, N_includeHeaders) = BoolValue(TRUE)),
              excludeResponse |-> (HasEntry(params, N_excludeResponse)
                                   /\ EntryOf(params, N_excludeResponse) = BoolValue(TRUE))]

\* The path templates of the endpoints at hand: the placeholder of id in brace
\* syntax, in colon syntax, in both, and twice in brace syntax.
Templates ==
    { <<"/", "u", "/", "{", "i", "d", "}">>,
      <<"/", "u", "/", ":", "i", "d">>,
      <<"/", "u", "/", "{", "i", "d", "}", "/", ":", "i", "d">>,
      <<"/", "u", "/", "{", "i", "d", "}", "/", "m", "/", "{", "i", "d", "}">> }
ContentTemplate == <<"/", "u", "/", "{", "i", "d", "}", "/", "c", "o", "n", "t", "e", "n", "t">>

\* The endpoints at hand. Each declares the path parameter id and one reserved
\* query name; some declare one more parameter, of any type, under a control
\* key's name, 'body' or another name; one family ends in /content, and one
\* declares a header parameter.
ExtraDefs ==
    { ParamDef(n, ty, NoSchema) : n \in ControlKeys \cup {N_body, N_other}, ty \in ParamTypes }
    \cup { ParamDef(n, "Body", Schema(r, w)) :
             n \in ControlKeys \cup {N_body, N_other}, r \in BOOLEAN, w \in BOOLEAN }
\* The names of the header parameters the endpoints at hand declare.
HeaderNames == {N_IfMatch, N_Authorization, N_authorization}
Endpoints ==
    { [td |-> Tool(t, "GET", <<ParamDef(N_id, "Path", NoSchema), ParamDef(q, "Query", NoSchema)>>,
                   FALSE),
       config |-> EndpointConfig(FALSE, FALSE)] : t \in Templates, q \in odataParams }
    \cup
    { [td |-> Tool(<<"/", "u", "/", "{", "i", "d", "}">>, "POST",
                   <<ParamDef(N_id, "Path", NoSchema), ParamDef(N_top, "Query", NoSchema), e>>,
                   FALSE),
       config |-> EndpointConfig(tz, FALSE)] : e \in ExtraDefs, tz \in BOOLEAN }
    \cup
    { [td |-> Tool(ContentTemplate, "GET", <<ParamDef(N_id, "Path", NoSchema)>>, m),
       config |-> EndpointConfig(FALSE, d)] : m \in BOOLEAN, d \in BOOLEAN }
    \cup
    { [td |-> Tool(<<"/", "u", "/", "{", "i", "d", "}">>, "GET",
                   <<ParamDef(N_id, "Path", NoSchema), ParamDef(h, "Header", NoSchema)>>, FALSE),
       config |-> EndpointConfig(FALSE, FALSE)] : h \in HeaderNames }

\* The names a caller may use against an endpoint: the declared names, the
\* reserved ones also with the '$' prefix, 'timezone', 'body' and a name the
\* endpoint may not know.
NamesFor(td) ==
    LET declared == { td.parameters[i].name : i \in DOMAIN td.parameters }
    IN  declared \cup { Dollar(n) : n \in declared \cap odataParams }
        \cup {N_timezone, N_body, N_other}

\* The parameter maps of at most MaxParams entries over these names, as
\* Object.entries gives them.
ParamMaps(names) ==
    UNION { { p \in [1..n -> names \X Values] :
                \A i \in 1..n, j \in 1..n : p[i][1] = p[j][1] => i = j }
            : n \in 0..MaxParams }

\* executeGraphTool is called with an endpoint and a parameter map.
InitBind ==
    /\ accessToken = Null
    /\ refreshToken = Null
    /\ outputFormat = "json"
    /\ clientSecret = FALSE
    /\ minted = 0
    /\ call = [c \in CallIds |-> IdleCall]
    /\ srv = [n |-> 1, size |-> <<0>>, total |-> 0]
    /\ tool = ToolIdle
    /\ norm = [pc |-> "idle"]
    /\ tree = [pc |-> "idle"]
    /\ match = [pc |-> "idle"]
    /\ drive = [pc |-> "idle"]
    /\ reg = [pc |-> "idle"]
    /\ dl = [pc |-> "idle"]
    /\ listChildren = [pc |-> "idle"]
    /\ \E e \in Endpoints : \E p \in ParamMaps(NamesFor(e.td)) :
         bind = [pc |-> "called", td |-> e.td, config |-> e.config, params |-> p,
                 out |-> NoBinding, sent |-> <<>>]

\* lines 90-224 and 308-321: the parameters are bound and the request is issued
\* with the bound path and options, under the headers performRequest builds; a
\* throw while binding is caught at the end of executeGraphTool and gives an
\* error result, no request being issued.
BindAndIssue ==
    /\ bind.pc = "called"
    /\ LET out == BindParams(bind.td, bind.config, bind.params) IN
       bind' = [bind EXCEPT !.pc = IF out.threw THEN "failed" ELSE "issued", !.out = out,
                            !.sent = IF out.threw THEN <<>>
                                     ELSE RequestHeaders(AccessTokenText, out.headers)]
    /\ UNCHANGED <<accessToken, refreshToken, outputFormat, clientSecret, minted, call, srv,
                   tool, norm, tree, match, drive, reg, dl, listChildren>>

NextBind == BindAndIssue

SpecBind == InitBind /\ [][NextBind]_vars

\* ------------------------------------------ formatJsonResponse on nested bodies
\* How deep the decoded bodies at hand are nested.
MaxNesting == 1

\* The decoded bodies at hand: an object with or without a name and a metadata
\* key, with or without a nested object and an array of one object, these being
\* bodies of the next smaller depth.
RECURSIVE Bodies(_)
Bodies(d) ==
    LET flat == { a @@ b : a \in {EmptyObj, (Key("name") :> "n")},
                           b \in {EmptyObj, (K_context :> "ctx")} }
    IN  IF d = 0 THEN flat
        ELSE LET inner == Bodies(d - 1)
             IN  { a @@ n @@ e :
                     a \in flat,
                     n \in {EmptyObj} \cup { (K_nested :> x) : x \in inner },
                     e \in {EmptyObj} \cup { (K_entries :> <<x>>) : x \in inner } }

\* formatJsonResponse is called with a decoded body and the two knobs.
InitNorm ==
    /\ accessToken = Null
    /\ refreshToken = Null
    /\ outputFormat \in {"json", "toon"}
    /\ clientSecret = FALSE
    /\ minted = 0
    /\ call = [c \in CallIds |-> IdleCall]
    /\ srv = [n |-> 1, size |-> <<0>>, total |-> 0]
    /\ tool = ToolIdle
    /\ bind = [pc |-> "idle"]
    /\ tree = [pc |-> "idle"]
    /\ match = [pc |-> "idle"]
    /\ drive = [pc |-> "idle"]
    /\ reg = [pc |-> "idle"]
    /\ dl = [pc |-> "idle"]
    /\ listChildren = [pc |-> "idle"]
    /\ \E data \in Bodies(MaxNesting), raw \in BOOLEAN, excl \in BOOLEAN :
         norm = [pc |-> "called", data |-> data, rawResponse |-> raw,
                 excludeResponse |-> excl,
                 out |-> McpResponse(Serialize(EmptyObj, "json"), FALSE, NoMeta)]

\* formatJsonResponse(data, rawResponse, excludeResponse) returns.
Format ==
    /\ norm.pc = "called"
    /\ norm' = [norm EXCEPT !.pc = "returned",
                    !.out = formatJsonResponse(norm.data, norm.rawResponse,
                                               norm.excludeResponse, outputFormat)]
    /\ UNCHANGED <<accessToken, refreshToken, outputFormat, clientSecret, minted, call, srv,
                   tool, bind, tree, match, drive, reg, dl, listChildren>>

NextNorm == Format

SpecNorm == InitNorm /\ [][NextNorm]_vars

\* ------------------------------------------------- collectSharePointFiles
\* How deep the folders of the libraries at hand are nested below the root.
MaxLibDepth == 5

\* graph-tools.ts:524  const SAFE_MAX_DEPTH = 20
SAFE_MAX_DEPTH == 20
\* graph-tools.ts:519  maxDepth = 10
DefaultMaxDepth == 10

\* Math.min
Min(a, b) == IF a <= b THEN a ELSE b

\* EffectiveMaxDepth with the requested value taken as it is.
EffectiveMaxDepth_AsRequested(maxDepth) ==
    IF maxDepth = <<>> THEN DefaultMaxDepth ELSE maxDepth[1]

\* lines 519 and 524-525: maxDepth = 10 when the option is absent (<<>>), and
\* effectiveMaxDepth = Math.min(maxDepth, SAFE_MAX_DEPTH).
EffectiveMaxDepth(maxDepth) ==
    Min(IF maxDepth = <<>> THEN DefaultMaxDepth ELSE maxDepth[1], SAFE_MAX_DEPTH)

\* The wildcard match of new RegExp(`^${escaped}$`, 'i'): every character of the
\* pattern but '*' stands for itself, '*' for any run of characters.
RECURSIVE GlobMatch(_, _)
GlobMatch(p, s) ==
    IF p = <<>> THEN s = <<>>
    ELSE IF Head(p) = "*"
    THEN GlobMatch(Tail(p), s) \/ (s # <<>> /\ GlobMatch(p, Tail(s)))
    ELSE s # <<>> /\ Head(s) = Head(p) /\ GlobMatch(Tail(p), Tail(s))

\* matchesFilter with the case of the letters kept.
matchesFilter_CaseSensitive(name, filter) ==
    IF filter = <<>> THEN TRUE
    ELSE IF name = <<>> THEN FALSE
    ELSE IF startsWith(filter, <<"*", ".">>) /\ Len(filter) > 2
         THEN endsWith(name, slice1(filter))
         ELSE IF includes(filter, <<"*">>)
         THEN GlobMatch(filter, name)
         ELSE includes(name, filter)

\* matchesFilter(name, filter); the filter '' stands for no filter as well.
matchesFilter(name, filter) ==
    IF filter = <<>> THEN TRUE
    ELSE IF name = <<>> THEN FALSE
    ELSE LET loweredName   == toLowerCase(name)
             loweredFilter == toLowerCase(filter)
         IN  IF startsWith(loweredFilter, <<"*", ".">>) /\ Len(loweredFilter) > 2
             THEN endsWith(loweredName, slice1(loweredFilter))
             ELSE IF includes(loweredFilter, <<"*">>)
             THEN GlobMatch(loweredFilter, loweredName)
             ELSE includes(loweredName, loweredFilter)

\* A library is the set of its folders, a folder being the sequence of child
\* numbers that leads to it from the root <<>>; the depth of a folder is the
\* length of that sequence. FullLibrary(d, w): w folders in every folder, down to
\* depth d. Lopsided(d): one chain of folders down to depth d and one more
\* folder in the root. DeepChain: one chain of folders that reaches two levels
\* below the depth ceiling of the collector.
FullLibrary(d, w) == UNION { [1..n -> 1..w] : n \in 0..d }
Lopsided(d) == { [i \in 1..n |-> 1] : n \in 0..d } \cup { <<2>> }
DeepChain == FullLibrary(SAFE_MAX_DEPTH + 2, 1)
Libraries ==
    { FullLibrary(d, 1) : d \in 0..MaxLibDepth }
    \cup { FullLibrary(d, 2) : d \in 1..3 }
    \cup { Lopsided(d) : d \in 2..MaxLibDepth }
    \cup { DeepChain }

\* A driveItem of a children listing: a file, or a folder (item.folder is set).
FileItem(id, name) == [id |-> id, name |-> name, folder |-> FALSE]
FolderItem(id)     == [id |-> id, name |-> <<"d", IF id[Len(id)] = 1 THEN "1" ELSE "2">>,
                       folder |-> TRUE]

\* What listDriveItemChildren returns for a folder of the library: a file, the
\* first sub-folder, another file, the second sub-folder.
ChildrenOf(lib, f) ==
    <<FileItem(Append(f, 8), <<"a", ".", "p", "d", "f">>)>>
    \o (IF Append(f, 1) \in lib THEN <<FolderItem(Append(f, 1))>> ELSE <<>>)
    \o <<FileItem(Append(f, 9), <<"B", ".", "t", "x", "t">>)>>
    \o (IF Append(f, 2) \in lib THEN <<FolderItem(Append(f, 2))>> ELSE <<>>)

\* A SharePointFileNode: of its fields the item id, the name, isFolder, the path
\* and, in a tree, the children.
Node(id, name, isFolder, path, children) ==
    [driveItemId |-> id, name |-> name, isFolder |-> isFolder, path |-> path,
     children |-> children]

\* currentPath === '/' ? `/${name}` : `${currentPath}/${name}`
ChildPath(currentPath, name) ==
    IF currentPath = <<"/">> THEN <<"/">> \o name ELSE currentPath \o <<"/">> \o name

\* currentPath.split('/').pop() || ''
RECURSIVE LastSegment(_)
LastSegment(path) ==
    IF path = <<>> \/ path[Len(path)] = "/" THEN <<>>
    ELSE Append(LastSegment(SubSeq(path, 1, Len(path) - 1)), path[Len(path)])

DriveName == <<"D", "o", "c", "u", "m", "e", "n", "t", "s">>

\* One activation of walk(currentItemId, currentPath, depth): its arguments, the
\* children once listed, the index of the item the loop is at, and childNodes.
Frame(id, path, depth) ==
    [id |-> id, path |-> path, depth |-> depth, children |-> <<>>, at |-> 1,
     childNodes |-> <<>>]

\* The result of collectSharePointFiles: items in flat structure, the root node
\* in tree structure, and the truncated flag.
NoResult == [structure |-> "", items |-> <<>>, root |-> <<>>, truncated |-> FALSE]
CollectResult(t, rootNode) ==
    [structure |-> t.structure,
     items |-> IF t.structure = "flat" THEN t.flatItems ELSE <<>>,
     root |-> IF t.structure = "flat" THEN <<>> ELSE <<rootNode>>,
     truncated |-> t.truncated]

\* Descends with the folders at the ceiling descended into as well.
Descends_AtCeilingToo(depth, effectiveMaxDepth) == depth <= effectiveMaxDepth

\* line 589: if (depth < effectiveMaxDepth), for a folder met by the walk at depth.
Descends(depth, effectiveMaxDepth) == depth < effectiveMaxDepth

\* TruncatedAtCeiling with the flag left as it was.
TruncatedAtCeiling_Kept(truncated) == truncated

\* lines 592-594: truncated after a folder that is not descended into.
TruncatedAtCeiling(truncated) == TRUE

\* ChildNodesAtCeiling with the node of the folder pushed.
ChildNodesAtCeiling_Attached(childNodes, baseNode) == Append(childNodes, baseNode)

\* lines 588-594: childNodes after a folder that is not descended into: the
\* push of line 591 is in the other branch.
ChildNodesAtCeiling(childNodes, baseNode) == childNodes

\* Emitted with a folder emitted whatever its name.
Emitted_FoldersUnfiltered(item, includeFolders, filter) ==
    IF item.folder THEN includeFolders ELSE matchesFilter(item.name, filter)

\* lines 580-586: the item is pushed to flatItems: a file whose name passes the
\* filter, or with includeFolders a folder whose name passes it.
Emitted(item, includeFolders, filter) ==
    IF item.folder
    THEN includeFolders /\ matchesFilter(item.name, filter)
    ELSE matchesFilter(item.name, filter)

\* LeafAttached with the leaves left out of childNodes.
LeafAttached_Never(structure) == FALSE

\* lines 595-597: the node of a file is pushed to childNodes.
LeafAttached(structure) == structure = "tree"

\* lines 552-604 and 607-628: walk runs on from the item its loop is at until it
\* awaits the listing of a folder it descends into, or until the walk of the root
\* has returned and the result is handed back. t is the state of the collector,
\* the last frame of t.stack the activation that runs.
RECURSIVE WalkOn(_)
WalkOn(t) ==
    LET n == Len(t.stack)
        f == t.stack[n]
    IN  IF f.at > Len(f.children)
        THEN LET node == Node(f.id,
                              IF f.depth = 0 THEN DriveName ELSE LastSegment(f.path),
                              TRUE, f.path,
                              IF t.structure = "tree" THEN f.childNodes ELSE <<>>)
             IN  IF n = 1
                 THEN [t EXCEPT !.pc = "done", !.stack = <<>>, !.result = CollectResult(t, node)]
                 ELSE WalkOn([t EXCEPT !.stack =
                                 [SubSeq(t.stack, 1, n - 1) EXCEPT
                                     ![n - 1].childNodes = Append(@, node),
                                     ![n - 1].at = @ + 1]])
        ELSE LET item      == f.children[f.at]
                 childPath == ChildPath(f.path, item.name)
                 baseNode  == Node(item.id, item.name, item.folder, childPath, <<>>)
                 emitted   == Emitted(item, t.includeFolders, t.filter)
                 t1        == [t EXCEPT !.flatItems = IF emitted THEN Append(@, baseNode) ELSE @]
             IN  IF item.folder
                 THEN IF Descends(f.depth, t.effectiveMaxDepth)
                      THEN [t1 EXCEPT !.stack = Append(@, Frame(item.id, childPath, f.depth + 1)),
                                      !.listed = Append(@, item.id)]
                      ELSE WalkOn([t1 EXCEPT !.truncated = TruncatedAtCeiling(@),
                                             !.stack[n].childNodes =
                                                 ChildNodesAtCeiling(@, baseNode),
                                             !.stack[n].at = @ + 1])
                 ELSE WalkOn([t1 EXCEPT !.stack[n].at = @ + 1,
                                        !.stack[n].childNodes =
                                            IF LeafAttached(t.structure)
                                            THEN Append(@, baseNode) ELSE @])

\* The maxDepth values a caller asks for (z.number()): none (the default
\* applies), one below 0, small ones, the ceiling itself and values above it. The filters: none, an extension pattern, a
\* substring and a wildcard pattern.
RequestedDepths ==
    {<<>>} \cup { <<d>> : d \in ((-1)..(MaxLibDepth - 1))
                               \cup {SAFE_MAX_DEPTH, SAFE_MAX_DEPTH + 1, 25} }
Filters == { <<>>, <<"*", ".", "P", "D", "F">>, <<"d", "1">>, <<"b", "*", "t">> }

\* collectSharePointFiles is called with its options, on a library.
InitTree ==
    /\ accessToken = Null
    /\ refreshToken = Null
    /\ outputFormat = "json"
    /\ clientSecret = FALSE
    /\ minted = 0
    /\ call = [c \in CallIds |-> IdleCall]
    /\ srv = [n |-> 1, size |-> <<0>>, total |-> 0]
    /\ tool = ToolIdle
    /\ bind = [pc |-> "idle"]
    /\ norm = [pc |-> "idle"]
    /\ match = [pc |-> "idle"]
    /\ drive = [pc |-> "idle"]
    /\ reg = [pc |-> "idle"]
    /\ dl = [pc |-> "idle"]
    /\ listChildren = [pc |-> "idle"]
    /\ \E structure \in {"flat", "tree"}, includeFolders \in BOOLEAN,
          maxDepth \in RequestedDepths, filter \in Filters, lib \in Libraries :
         tree = [pc |-> "called", structure |-> structure, includeFolders |-> includeFolders,
                 maxDepth |-> maxDepth, filter |-> filter, lib |-> lib,
                 effectiveMaxDepth |-> 0, stack |-> <<>>, flatItems |-> <<>>,
                 truncated |-> FALSE, listed |-> <<>>, result |-> NoResult]

\* lines 513-612: the options are read, the depth ceiling is applied and the
\* drive is resolved; resolveSiteDrive throws, or walk is called on the root and
\* awaits the listing of its children.
DriveResolved ==
    /\ tree.pc = "called"
    /\ \/ tree' = [tree EXCEPT !.pc = "failed"]
       \/ tree' = [tree EXCEPT
                      !.pc = "listing",
                      !.effectiveMaxDepth = EffectiveMaxDepth(tree.maxDepth),
                      !.stack = <<Frame(<<>>, <<"/">>, 0)>>,
                      !.listed = <<<<>>>>]
    /\ UNCHANGED <<accessToken, refreshToken, outputFormat, clientSecret, minted, call, srv,
                   tool, bind, norm, match, drive, reg, dl, listChildren>>

\* ChildrenListed with the children walked in the reverse of the listing order.
ChildrenListed_Reversed ==
    /\ tree.pc = "listing"
    /\ \/ tree' = [tree EXCEPT !.pc = "failed"]
       \/ LET n == Len(tree.stack)
              listing == ChildrenOf(tree.lib, tree.stack[n].id)
          IN  tree' = WalkOn([tree EXCEPT
                                 !.stack[n].children =
                                     [i \in DOMAIN listing |-> listing[Len(listing) + 1 - i]]])
    /\ UNCHANGED <<accessToken, refreshToken, outputFormat, clientSecret, minted, call, srv,
                   tool, bind, norm, match, drive, reg, dl, listChildren>>

\* lines 540-605: listDriveItemChildren returns the children of the folder the
\* running walk is at, or throws; with the children the walk runs on.
ChildrenListed ==
    /\ tree.pc = "listing"
    /\ \/ tree' = [tree EXCEPT !.pc = "failed"]
       \/ LET n == Len(tree.stack) IN
          tree' = WalkOn([tree EXCEPT
                             !.stack[n].children = ChildrenOf(tree.lib, tree.stack[n].id)])
    /\ UNCHANGED <<accessToken, refreshToken, outputFormat, clientSecret, minted, call, srv,
                   tool, bind, norm, match, drive, reg, dl, listChildren>>

NextTree ==
    \/ DriveResolved
    \/ ChildrenListed

SpecTree == InitTree /\ [][NextTree]_vars

\* ------------------------------------------------------------ matchesFilter
\* The session untouched: what the specifications of single functions start
\* from and leave alone.
SessionAtRest ==
    /\ accessToken = Null
    /\ refreshToken = Null
    /\ outputFormat = "json"
    /\ clientSecret = FALSE
    /\ minted = 0
    /\ call = [c \in CallIds |-> IdleCall]
    /\ srv = [n |-> 1, size |-> <<0>>, total |-> 0]
    /\ tool = ToolIdle

\* The names of entries and the filters matchesFilter is applied to; the name
\* '' is what walk passes for an entry without a name, the filter '' or
\* undefined is no filter.
FileNames ==
    { <<"R", "e", "p", "o", "r", "t", ".", "P", "D", "F">>,
      <<"r", "e", "p", "o", "r", "t", ".", "p", "d", "f", ".", "t", "x", "t">>,
      <<"n", "o", "t", "e", "s", ".", "T", "X", "T">>,
      <<"P", "D", "F">>,
      <<>>,
      <<"x", ".", "P", "d", "f">>,
      <<"p", "d", "f", ".", "d">>,
      <<"a", ".", "p", "d", "f", "x">> }
NameFilters ==
    { <<>>,
      <<"*", ".", "p", "d", "f">>,
      <<"*", ".", "P", "D", "F">>,
      <<"*", ".", "t", "x", "t">>,
      <<"p", "d", "f">>,
      <<"P", "O", "R", "T">>,
      <<"T", "x", "t">>,
      <<"*", ".">>,
      <<"r", "*", ".", "p", "d", "f">>,
      <<"*">>,
      <<"r", "e", "p", "*", "T">>,
      <<".", "p", "d", "f">> }

InitMatch ==
    /\ SessionAtRest
    /\ bind = [pc |-> "idle"]
    /\ norm = [pc |-> "idle"]
    /\ tree = [pc |-> "idle"]
    /\ drive = [pc |-> "idle"]
    /\ reg = [pc |-> "idle"]
    /\ dl = [pc |-> "idle"]
    /\ listChildren = [pc |-> "idle"]
    /\ \E name \in FileNames, filter \in NameFilters :
         match = [pc |-> "called", name |-> name, filter |-> filter, out |-> FALSE]

\* lines 469-490: matchesFilter(name, filter) returns.
Match ==
    /\ match.pc = "called"
    /\ match' = [match EXCEPT !.pc = "returned", !.out = matchesFilter(match.name, match.filter)]
    /\ UNCHANGED <<accessToken, refreshToken, outputFormat, clientSecret, minted, call, srv,
                   tool, bind, norm, tree, drive, reg, dl, listChildren>>

NextMatch == Match

SpecMatch == InitMatch /\ [][NextMatch]_vars

\* --------------------------------------------------------- resolveSiteDrive
\* How many document libraries the site at hand holds at most.
MaxDrives == 2

\* String.prototype.trim, of blanks.
RECURSIVE trimStart(_)
trimStart(s) == IF s # <<>> /\ Head(s) = " " THEN trimStart(Tail(s)) ELSE s
RECURSIVE trimEnd(_)
trimEnd(s) ==
    IF s # <<>> /\ s[Len(s)] = " " THEN trimEnd(SubSeq(s, 1, Len(s) - 1)) ELSE s
trim(s) == trimEnd(trimStart(s))

\* lines 374-375: normalize = (value) => (value || '').trim().toLowerCase()
normalize(value) == toLowerCase(trim(value))

\* line 383
preferredNames ==
    { <<"d", "o", "k", "u", "m", "e", "n", "t", "e">>,
      <<"d", "o", "c", "u", "m", "e", "n", "t", "s">>,
      <<"s", "h", "a", "r", "e", "d", " ", "d", "o", "c", "u", "m", "e", "n", "t", "s">> }

\* A drive of the listing: its id, its name ('' when it has none) and the id of
\* its root item ('' when the listing does not carry it).
Drive(id, name, rootId) == [id |-> id, name |-> name, rootId |-> rootId]
NoDrive == Drive(<<>>, <<>>, "")

\* Array.prototype.find: the first element that satisfies Test, NoDrive if none.
FindDrive(drives, Test(_)) ==
    IF \E i \in DOMAIN drives : Test(drives[i])
    THEN drives[CHOOSE i \in DOMAIN drives :
                   Test(drives[i]) /\ \A j \in 1..(i - 1) : ~Test(drives[j])]
    ELSE NoDrive

\* SelectDrive with the name looked for before the id.
SelectDrive_NameFirst(drives, driveId, driveName) ==
    LET byId   == IF driveId # <<>>
                  THEN FindDrive(drives, LAMBDA d : d.id # <<>> /\ normalize(d.id) = normalize(driveId))
                  ELSE NoDrive
        byName == IF driveName # <<>>
                  THEN FindDrive(drives, LAMBDA d : d.name # <<>> /\ normalize(d.name) = normalize(driveName))
                  ELSE NoDrive
        asked  == IF byName # NoDrive THEN byName ELSE byId
        liked  == FindDrive(drives, LAMBDA d : normalize(d.name) \in preferredNames)
    IN  IF asked # NoDrive THEN asked
        ELSE IF liked # NoDrive THEN liked ELSE drives[1]

\* lines 377-385: the drive selected from a listing that is not empty.
SelectDrive(drives, driveId, driveName) ==
    LET byId   == IF driveId # <<>>
                  THEN FindDrive(drives, LAMBDA d : d.id # <<>> /\ normalize(d.id) = normalize(driveId))
                  ELSE NoDrive
        byName == IF driveName # <<>>
                  THEN FindDrive(drives, LAMBDA d : d.name # <<>> /\ normalize(d.name) = normalize(driveName))
                  ELSE NoDrive
        asked  == IF byId # NoDrive THEN byId ELSE byName
        liked  == FindDrive(drives, LAMBDA d : normalize(d.name) \in preferredNames)
    IN  IF asked # NoDrive THEN asked
        ELSE IF liked # NoDrive THEN liked ELSE drives[1]

\* lines 413-417: the SharePointDriveInfo returned.
DriveInfo(selected, rootItemId) ==
    [driveId |-> selected.id,
     driveName |-> IF selected.name # <<>> THEN selected.name ELSE selected.id,
     rootItemId |-> rootItemId]
NoDriveInfo == DriveInfo(NoDrive, "")

\* lines 369-411, from the listing of the drives on: no drive throws, a drive is
\* selected, a selection without id throws, and the root item is looked up when
\* the selection carries no root id.
AfterListing(d, drives) ==
    IF drives = <<>>
    THEN [d EXCEPT !.pc = "failed", !.error = "No document libraries (drives) found"]
    ELSE LET selected == SelectDrive(drives, d.driveId, d.driveName)
         IN  IF selected.id = <<>>
             THEN [d EXCEPT !.pc = "failed", !.selected = selected,
                            !.error = "Failed to resolve drive (missing drive id)"]
             ELSE IF selected.rootId = ""
             THEN [d EXCEPT !.pc = "root", !.selected = selected,
                            !.requests = Append(@, <<"root", selected.id>>)]
             ELSE [d EXCEPT !.pc = "done", !.selected = selected,
                            !.result = DriveInfo(selected, selected.rootId)]

\* The libraries a site may hold; Graph gives every drive an id, and no two
\* drives of a site the same id.
SomeDrives ==
    { Drive(<<"A", "1">>, <<"D", "o", "c", "s">>, "r1"),
      Drive(<<"b", "2">>, <<"D", "o", "c", "u", "m", "e", "n", "t", "s">>, ""),
      Drive(<<"C", "3">>, <<>>, "r3"),
      Drive(<<"d", "4">>, <<"D", "o", "k", "u", "m", "e", "n", "t", "e">>, ""),
      Drive(<<"E", "5">>, <<"d", "o", "c", "s">>, "") }
DriveListings ==
    { l \in UNION { [1..n -> SomeDrives] : n \in 0..MaxDrives } :
        \A i, j \in DOMAIN l : l[i].id = l[j].id => i = j }

\* The driveId and driveName options: absent, or a text.
DriveIdOptions   == { <<>>, <<"a", "1">>, <<" ", "B", "2", " ">>, <<"z", "z">> }
DriveNameOptions == { <<>>, <<"D", "O", "C", "S">>, <<"c", "3">>, <<"n", "o", "n", "e">> }

\* resolveSiteDrive is called; it asks for the drives of the site.
InitDrive ==
    /\ SessionAtRest
    /\ bind = [pc |-> "idle"]
    /\ norm = [pc |-> "idle"]
    /\ tree = [pc |-> "idle"]
    /\ match = [pc |-> "idle"]
    /\ reg = [pc |-> "idle"]
    /\ dl = [pc |-> "idle"]
    /\ listChildren = [pc |-> "idle"]
    /\ \E driveId \in DriveIdOptions, driveName \in DriveNameOptions :
         drive = [pc |-> "listing", driveId |-> driveId, driveName |-> driveName,
                  drives |-> <<>>, selected |-> NoDrive, requests |-> << <<"drives", <<>>>> >>,
                  result |-> NoDriveInfo, error |-> ""]

\* lines 365-411: the request for the drives throws, or gives a listing.
DrivesListed ==
    /\ drive.pc = "listing"
    /\ \/ drive' = [drive EXCEPT !.pc = "failed", !.error = "request failed"]
       \/ \E drives \in DriveListings :
             drive' = AfterListing([drive EXCEPT !.drives = drives], drives)
    /\ UNCHANGED <<accessToken, refreshToken, outputFormat, clientSecret, minted, call, srv,
                   tool, bind, norm, tree, match, reg, dl, listChildren>>

\* lines 400-417: the request for the root item throws, or gives an item with
\* or without an id.
RootReturned ==
    /\ drive.pc = "root"
    /\ \/ drive' = [drive EXCEPT !.pc = "failed", !.error = "request failed"]
       \/ \E rootId \in {"", "r9"} :
             drive' = IF rootId = ""
                      THEN [drive EXCEPT !.pc = "failed",
                                         !.error = "Failed to resolve drive root item (missing root id)"]
                      ELSE [drive EXCEPT !.pc = "done",
                                         !.result = DriveInfo(drive.selected, rootId)]
    /\ UNCHANGED <<accessToken, refreshToken, outputFormat, clientSecret, minted, call, srv,
                   tool, bind, norm, tree, match, reg, dl, listChildren>>

NextDrive ==
    \/ DrivesListed
    \/ RootReturned

SpecDrive == InitDrive /\ [][NextDrive]_vars

\* ------------------------------------- registerGraphTools, discovery tools
\* An endpoint of the generated catalog (api.endpoints) with what endpoints.json
\* says of it: hasConfig is whether endpoints.json has an entry for the alias,
\* scopes and workScopes whether that entry carries them.
CatalogEntry(alias, method, path, description, hasConfig, scopes, workScopes) ==
    [alias |-> alias, method |-> method, path |-> path, description |-> description,
     hasConfig |-> hasConfig, scopes |-> scopes, workScopes |-> workScopes,
     llmTip |-> <<>>]

\* tool.method.toUpperCase()
MethodUpper(method) ==
    CASE method = "get"    -> "GET"
      [] method = "post"   -> "POST"
      [] method = "patch"  -> "PATCH"
      [] method = "delete" -> "DELETE"
      [] OTHER             -> method

\* The patterns at hand, as new RegExp(pattern, 'i') reads them: '(' is no
\* regular expression, a leading '^' anchors the rest at the start of the text,
\* any other text here is matched literally anywhere, the case ignored.
RegExpThrows(pattern) == pattern = <<"(">>
RegExpTest(pattern, text) ==
    IF pattern # <<>> /\ Head(pattern) = "^"
    THEN startsWith(toLowerCase(text), toLowerCase(Tail(pattern)))
    ELSE includes(toLowerCase(text), toLowerCase(pattern))

\* lines 638-646: enabledToolsRegex is set for a pattern that is given and is a
\* regular expression.
HasToolsRegex(enabledToolsPattern) ==
    enabledToolsPattern # <<>> /\ ~RegExpThrows(enabledToolsPattern)

\* lines 654 and 1002: the tool is for work accounts only.
WorkOnly(e) == e.hasConfig /\ ~e.scopes /\ e.workScopes

\* DirectlyVisible without the rule of the read-only mode.
DirectlyVisible_WritesKept(e, readOnly, enabledToolsPattern, orgMode) ==
    /\ ~(~orgMode /\ WorkOnly(e))
    /\ ~(HasToolsRegex(enabledToolsPattern) /\ ~RegExpTest(enabledToolsPattern, e.alias))

\* lines 652-670: the loop of registerGraphTools does not skip the tool.
DirectlyVisible(e, readOnly, enabledToolsPattern, orgMode) ==
    /\ ~(~orgMode /\ WorkOnly(e))
    /\ ~(readOnly /\ MethodUpper(e.method) # "GET")
    /\ ~(HasToolsRegex(enabledToolsPattern) /\ ~RegExpTest(enabledToolsPattern, e.alias))

\* InRegistry without the rule of the read-only mode.
InRegistry_WritesKept(e, readOnly, orgMode) ==
    ~(~orgMode /\ WorkOnly(e))

\* lines 999-1011: the loop of buildToolsRegistry does not skip the tool.
InRegistry(e, readOnly, orgMode) ==
    /\ ~(~orgMode /\ WorkOnly(e))
    /\ ~(readOnly /\ MethodUpper(e.method) # "GET")

\* The two convenience tools registerGraphTools registers after the catalog,
\* and the two tools registerDiscoveryTools registers.
N_listSiteFiles == <<"l", "i", "s", "t", "-", "s", "h", "a", "r", "e", "p", "o", "i", "n", "t", "-", "s", "i", "t", "e", "-", "f", "i", "l", "e", "s">>
N_downloadFile  == <<"d", "o", "w", "n", "l", "o", "a", "d", "-", "f", "i", "l", "e", "-", "t", "o", "-", "l", "o", "c", "a", "l">>
N_searchTools   == <<"s", "e", "a", "r", "c", "h", "-", "t", "o", "o", "l", "s">>
N_executeTool   == <<"e", "x", "e", "c", "u", "t", "e", "-", "t", "o", "o", "l">>

AliasesOf(entries) == [i \in DOMAIN entries |-> entries[i].alias]

\* lines 631-988: the names registerGraphTools registers with the server, in
\* order.
DirectTools(catalog, readOnly, enabledToolsPattern, orgMode) ==
    AliasesOf(SelectSeq(catalog,
                        LAMBDA e : DirectlyVisible(e, readOnly, enabledToolsPattern, orgMode)))
    \o <<N_listSiteFiles, N_downloadFile>>

\* lines 990-1014: the registry, in insertion order.
buildToolsRegistry(catalog, readOnly, orgMode) ==
    SelectSeq(catalog, LAMBDA e : InRegistry(e, readOnly, orgMode))

\* TOOL_CATEGORIES[category].pattern as line 1055 reads it: a category that is
\* not among the keys gives undefined.
CategoryPattern(category) ==
    IF category = "mail" THEN <<"m", "a", "i", "l">>
    ELSE IF category = "files" THEN <<"d", "r", "i", "v", "e">>
    ELSE <<>>

\* lines 1063-1064: `${name} ${tool.path} ${tool.description || ''} ${config?.llmTip || ''}`
SearchText(e) ==
    toLowerCase(e.alias \o <<" ">> \o e.path \o <<" ">> \o e.description \o <<" ">> \o e.llmTip)

\* lines 1057-1077: the loop of search-tools from entry i of the registry on,
\* with the results so far.
RECURSIVE SearchLoop(_, _, _, _, _, _)
SearchLoop(registry, i, results, query, category, maxLimit) ==
    IF i > Len(registry) THEN results
    ELSE LET e == registry[i]
         IN  IF CategoryPattern(category) # <<>> /\ ~RegExpTest(CategoryPattern(category), e.alias)
             THEN SearchLoop(registry, i + 1, results, query, category, maxLimit)
             ELSE IF query # <<>> /\ ~includes(SearchText(e), toLowerCase(query))
             THEN SearchLoop(registry, i + 1, results, query, category, maxLimit)
             ELSE LET more == Append(results, e.alias)
                  IN  IF Len(more) >= maxLimit THEN more
                      ELSE SearchLoop(registry, i + 1, more, query, category, maxLimit)

\* lines 1044-1100: the answer of search-tools; limit is <<>> when not given.
SearchAnswer(registry, query, category, limit) ==
    LET maxLimit == Min(IF limit = <<>> THEN 20 ELSE limit[1], 50)
        results  == SearchLoop(registry, 1, <<>>, query, category, maxLimit)
    IN  [found |-> Len(results), total |-> Len(registry), tools |-> results]
NoSearch == [found |-> 0, total |-> 0, tools |-> <<>>]

\* The catalog at hand.
Catalog ==
    << CatalogEntry(<<"l", "i", "s", "t", "-", "m", "a", "i", "l">>, "get",  <<"/", "m", "e", "/", "m", "e", "s", "s", "a", "g", "e", "s">>, <<"L", "i", "s", "t", " ", "M", "a", "i", "l">>, TRUE,  TRUE,  FALSE),
       CatalogEntry(<<"s", "e", "n", "d", "-", "m", "a", "i", "l">>, "post", <<"/", "m", "e", "/", "s", "e", "n", "d", "M", "a", "i", "l">>, <<>>, TRUE,  TRUE,  FALSE),
       CatalogEntry(<<"l", "i", "s", "t", "-", "c", "h", "a", "t", "s">>, "get",  <<"/", "c", "h", "a", "t", "s">>, <<>>, TRUE,  FALSE, TRUE),
       CatalogEntry(<<"s", "e", "n", "d", "-", "c", "h", "a", "t">>, "post", <<"/", "c", "h", "a", "t", "s", "/", ":", "i", "d">>, <<>>, TRUE,  FALSE, TRUE),
       CatalogEntry(<<"g", "e", "t", "-", "m", "e">>, "get",  <<"/", "m", "e">>, <<>>, FALSE, FALSE, FALSE),
       CatalogEntry(<<"L", "i", "s", "t", "-", "D", "r", "i", "v", "e", "s">>, "get",  <<"/", "d", "r", "i", "v", "e", "s">>, <<"m", "y", " ", "m", "a", "i", "l", " ", "f", "i", "l", "e", "s">>, TRUE,  TRUE,  TRUE) >>
Catalogs == { Catalog }

\* --tools-filter patterns: none, one that is no regular expression, a text,
\* an anchored text.
ToolPatterns == { <<>>, <<"(">>, <<"m", "a", "i", "l">>, <<"^", "L", "I", "S", "T">> }

\* What search-tools and execute-tool are called with.
Queries    == { <<>>, <<"M", "A", "I", "L">>, <<"/", "m", "e">> }
Categories == { "", "mail", "nope" }
Limits     == { <<>>, <<0>>, <<-1>>, <<1>>, <<2>>, <<60>> }
ToolNames  == { Catalog[i].alias : i \in DOMAIN Catalog } \cup { <<"n", "o", "-", "s", "u", "c", "h", "-", "t", "o", "o", "l">>, N_downloadFile }

\* Follow-up pages the service links behind a first page.
MaxFollowUps == 2

\* graph-client.ts line 223: the method fetch is given.
FetchMethod(method) == IF method = "" THEN "GET" ELSE method

\* lines 183-247: the methods of the requests of one executeGraphTool call on
\* the catalog entry e: the first request carries options.method (line 192),
\* every follow-up page request carries nextOptions = {...options} (line 239).
ToolRequests(e, followUps) ==
    [i \in 1..(1 + followUps) |-> FetchMethod(MethodUpper(e.method))]

\* lines 365, 400, 441 and 940: the requests of the two convenience tools are
\* written with method: 'GET'.
ConvenienceRequests(n) == [i \in 1..n |-> FetchMethod("GET")]

\* toolsRegistry.get(tool_name): the entry set last under that name, <<>> when
\* there is none.
RegistryGet(registry, name) ==
    LET at == {i \in DOMAIN registry : registry[i].alias = name}
    IN  IF at = {} THEN <<>>
        ELSE <<registry[CHOOSE i \in at : \A j \in at : j <= i]>>

\* A server process is configured; no tool is registered yet.
InitReg ==
    /\ SessionAtRest
    /\ bind = [pc |-> "idle"]
    /\ norm = [pc |-> "idle"]
    /\ tree = [pc |-> "idle"]
    /\ match = [pc |-> "idle"]
    /\ drive = [pc |-> "idle"]
    /\ dl = [pc |-> "idle"]
    /\ listChildren = [pc |-> "idle"]
    /\ \E readOnly \in BOOLEAN, orgMode \in BOOLEAN, pattern \in ToolPatterns,
          catalog \in Catalogs :
         reg = [pc |-> "start", readOnly |-> readOnly, orgMode |-> orgMode,
                enabledToolsPattern |-> pattern, catalog |-> catalog,
                tools |-> <<>>, toolsRegistry |-> <<>>, search |-> NoSearch,
                asked |-> <<>>, dispatched |-> FALSE,
                requests |-> <<>>, isError |-> FALSE, error |-> ""]

\* lines 631-988: registerGraphTools(server, graphClient, readOnly,
\* enabledToolsPattern, orgMode).
registerGraphTools ==
    /\ reg.pc = "start"
    /\ reg' = [reg EXCEPT !.pc = "direct",
                          !.tools = DirectTools(reg.catalog, reg.readOnly,
                                                reg.enabledToolsPattern, reg.orgMode)]
    /\ UNCHANGED <<accessToken, refreshToken, outputFormat, clientSecret, minted, call, srv,
                   tool, bind, norm, tree, match, drive, dl, listChildren>>

\* lines 1016-1133: registerDiscoveryTools(server, graphClient, readOnly, orgMode).
registerDiscoveryTools ==
    /\ reg.pc = "start"
    /\ reg' = [reg EXCEPT !.pc = "discovery",
                          !.tools = <<N_searchTools, N_executeTool>>,
                          !.toolsRegistry = buildToolsRegistry(reg.catalog, reg.readOnly,
                                                               reg.orgMode)]
    /\ UNCHANGED <<accessToken, refreshToken, outputFormat, clientSecret, minted, call, srv,
                   tool, bind, norm, tree, match, drive, dl, listChildren>>

\* lines 1044-1100: a call of search-tools.
SearchTools ==
    /\ reg.pc = "discovery"
    /\ \E query \in Queries, category \in Categories, limit \in Limits :
         reg' = [reg EXCEPT !.search = SearchAnswer(reg.toolsRegistry, query, category, limit),
                            !.asked = <<query, category, limit>>,
                            !.requests = <<>>, !.isError = FALSE, !.error = ""]
    /\ UNCHANGED <<accessToken, refreshToken, outputFormat, clientSecret, minted, call, srv,
                   tool, bind, norm, tree, match, drive, dl, listChildren>>

\* lines 1114-1131: a call of execute-tool: the name is looked up in the
\* registry; it is dispatched to executeGraphTool, or answered 'Tool not found'.
ExecuteToolByName ==
    /\ reg.pc = "discovery"
    /\ \E name \in ToolNames, followUps \in 0..MaxFollowUps :
         LET toolData == RegistryGet(reg.toolsRegistry, name)
         IN  reg' = [reg EXCEPT !.asked = <<name>>,
                                !.dispatched = toolData # <<>>,
                                !.requests = IF toolData = <<>> THEN <<>>
                                             ELSE ToolRequests(toolData[1], followUps),
                                !.isError = toolData = <<>>,
                                !.error = IF toolData = <<>> THEN "Tool not found" ELSE ""]
    /\ UNCHANGED <<accessToken, refreshToken, outputFormat, clientSecret, minted, call, srv,
                   tool, bind, norm, tree, match, drive, dl, listChildren>>

\* lines 724, 856 and 975: a call of a tool registerGraphTools registered: the
\* handler of a catalog entry runs executeGraphTool on that entry, the two
\* convenience tools send their own requests.
CallDirectTool ==
    /\ reg.pc = "direct"
    /\ \E i \in DOMAIN reg.tools, followUps \in 0..MaxFollowUps :
         LET name == reg.tools[i]
             bound == SelectSeq(reg.catalog, LAMBDA e : e.alias = name)
         IN  reg' = [reg EXCEPT !.asked = <<name>>,
                                !.dispatched = TRUE,
                                !.requests = IF name \in {N_listSiteFiles, N_downloadFile}
                                             THEN ConvenienceRequests(followUps)
                                             ELSE ToolRequests(bound[1], followUps),
                                !.isError = FALSE, !.error = ""]
    /\ UNCHANGED <<accessToken, refreshToken, outputFormat, clientSecret, minted, call, srv,
                   tool, bind, norm, tree, match, drive, dl, listChildren>>

NextReg ==
    \/ registerGraphTools
    \/ CallDirectTool
    \/ registerDiscoveryTools
    \/ SearchTools
    \/ ExecuteToolByName

SpecReg == InitReg /\ [][NextReg]_vars

\* ---------------------------------------------------- download-file-to-local
\* A path text cut at its '/' characters.
RECURSIVE SplitPath(_, _, _)
SplitPath(s, cur, acc) ==
    IF s = <<>> THEN Append(acc, cur)
    ELSE IF Head(s) = "/" THEN SplitPath(Tail(s), <<>>, Append(acc, cur))
    ELSE SplitPath(Tail(s), Append(cur, Head(s)), acc)

\* The segments with '' and '.' dropped and every '..' taking the segment
\* before it with it; above the root '..' has no effect.
RECURSIVE NormalSegments(_, _)
NormalSegments(segs, acc) ==
    IF segs = <<>> THEN acc
    ELSE LET seg == Head(segs)
         IN  IF seg = <<>> \/ seg = <<".">> THEN NormalSegments(Tail(segs), acc)
             ELSE IF seg = <<".", ".">>
             THEN NormalSegments(Tail(segs),
                                 IF acc = <<>> THEN acc ELSE SubSeq(acc, 1, Len(acc) - 1))
             ELSE NormalSegments(Tail(segs), Append(acc, seg))

RECURSIVE JoinPath(_)
JoinPath(segs) ==
    IF segs = <<>> THEN <<>> ELSE <<"/">> \o Head(segs) \o JoinPath(Tail(segs))

\* path.resolve(base, p) of POSIX for an absolute base: an absolute p stands
\* alone, any other p is read from base; the result is normalized.
pathResolve(base, p) ==
    LET from == IF p # <<>> /\ Head(p) = "/" THEN p ELSE base \o <<"/">> \o p
        segs == NormalSegments(SplitPath(from, <<>>, <<>>), <<>>)
    IN  IF segs = <<>> THEN <<"/">> ELSE JoinPath(segs)

\* path.dirname of a normalized absolute path
pathDirname(p) ==
    LET segs == NormalSegments(SplitPath(p, <<>>, <<>>), <<>>)
    IN  IF Len(segs) <= 1 THEN <<"/">> ELSE JoinPath(SubSeq(segs, 1, Len(segs) - 1))

\* line 903: targetPath.startsWith(resolvedBase)
PassesBaseCheck(targetPath, resolvedBase) == startsWith(targetPath, resolvedBase)

\* The error result and the success result of the handler.
DownloadError(message) == [isError |-> TRUE, message |-> message, savedAs |-> <<>>]
DownloadSaved(targetPath) == [isError |-> FALSE, message |-> "", savedAs |-> targetPath]
NoDownloadResult == [isError |-> FALSE, message |-> "", savedAs |-> <<>>]

\* The download directory (MS365_MCP_DOWNLOAD_DIR), the localPath values a
\* caller passes, and the files that may be on disk before the call.
DownloadDir == <<"/", "s", "r", "v", "/", "d", "l">>
LocalPaths ==
    { <<"a", ".", "t", "x", "t">>,
      <<"s", "u", "b", "/", "a", ".", "t", "x", "t">>,
      <<".", ".", "/", ".", ".", "/", "e", "t", "c", "/", "p", "a", "s", "s", "w", "d">>,
      <<".", ".", "/", "d", "l", "-", "e", "v", "i", "l", "/", "x">>,
      <<"/", "e", "t", "c", "/", "p", "a", "s", "s", "w", "d">>,
      <<"s", "u", "b", "/", ".", ".", "/", ".", ".", "/", "d", "l", "/", "a", ".", "t", "x", "t">>,
      <<".", "/", "s", "u", "b", "/", "/", "b">> }
FilesOnDisk == { <<"/", "s", "r", "v", "/", "d", "l", "/", "a", ".", "t", "x", "t">>, <<"/", "s", "r", "v", "/", "d", "l", "-", "e", "v", "i", "l", "/", "x">>, <<"/", "e", "t", "c", "/", "p", "a", "s", "s", "w", "d">> }

\* The handler is called on a disk that holds some files.
InitDownload ==
    /\ SessionAtRest
    /\ bind = [pc |-> "idle"]
    /\ norm = [pc |-> "idle"]
    /\ tree = [pc |-> "idle"]
    /\ match = [pc |-> "idle"]
    /\ drive = [pc |-> "idle"]
    /\ reg = [pc |-> "idle"]
    /\ listChildren = [pc |-> "idle"]
    /\ \E localPath \in LocalPaths, overwrite \in BOOLEAN, files \in SUBSET FilesOnDisk :
         dl = [pc |-> "called", localPath |-> localPath, overwrite |-> overwrite,
               files |-> files, targetPath |-> <<>>, mkdirs |-> <<>>, requests |-> 0,
               writes |-> <<>>, result |-> NoDownloadResult,
               before |-> files, download |-> "none", content |-> "unchanged"]

\* lines 895-940: the handler up to the await of downloadBinary: the target is
\* resolved and tested against the base directory, an existing file is refused
\* without overwrite, the directory of the target is made (mkdirSync may throw,
\* which the catch of line 960 turns into an error result), and the download is
\* requested.
DownloadStart ==
    /\ dl.pc = "called"
    /\ LET resolvedBase == pathResolve(<<"/">>, DownloadDir)
           targetPath   == pathResolve(resolvedBase, dl.localPath)
           d            == [dl EXCEPT !.targetPath = targetPath]
       IN  IF ~PassesBaseCheck(targetPath, resolvedBase)
           THEN dl' = [d EXCEPT !.pc = "done",
                                !.result = DownloadError("resolved path escapes download base directory")]
           ELSE IF ~dl.overwrite /\ targetPath \in dl.files
           THEN dl' = [d EXCEPT !.pc = "done", !.result = DownloadError("File already exists")]
           ELSE \/ dl' = [d EXCEPT !.pc = "done",
                                   !.result = DownloadError("Failed to download file to local path")]
                \/ dl' = [d EXCEPT !.pc = "downloading",
                                   !.mkdirs = Append(@, pathDirname(targetPath)),
                                   !.requests = @ + 1]
    /\ UNCHANGED <<accessToken, refreshToken, outputFormat, clientSecret, minted, call, srv,
                   tool, bind, norm, tree, match, drive, reg, listChildren>>

\* The ways downloadBinary throws (graph-client.ts lines 146-189): no token, a
\* refresh that fails, a response that is not ok, a fetch that rejects.
DownloadFailures == {"no token", "refresh failed", "upstream error", "transport failure"}

\* DownloadReturned with the target opened for writing before the download is
\* awaited.
DownloadReturned_WritesOnFailure ==
    /\ dl.pc = "downloading"
    /\ \/ \E failure \in DownloadFailures :
            dl' = [dl EXCEPT !.pc = "done",
                             !.download = failure,
                             !.files = @ \cup {dl.targetPath},
                             !.writes = Append(@, dl.targetPath),
                             !.content = "partial",
                             !.result = DownloadError("Failed to download file to local path")]
       \/ dl' = [dl EXCEPT !.pc = "done",
                            !.download = "ok",
                            !.files = @ \cup {dl.targetPath},
                            !.writes = Append(@, dl.targetPath),
                            !.content = "downloaded",
                            !.result = DownloadSaved(dl.targetPath)]
    /\ UNCHANGED <<accessToken, refreshToken, outputFormat, clientSecret, minted, call, srv,
                   tool, bind, norm, tree, match, drive, reg, listChildren>>

\* lines 940-972: downloadBinary throws, and the catch of line 960 answers the
\* error; or it returns the content, which writeFileSync writes to the target,
\* or fails to write: the target is then as it was, or cut short.
DownloadReturned ==
    /\ dl.pc = "downloading"
    /\ \/ \E failure \in DownloadFailures :
            dl' = [dl EXCEPT !.pc = "done",
                             !.download = failure,
                             !.result = DownloadError("Failed to download file to local path")]
       \/ dl' = [dl EXCEPT !.pc = "done",
                            !.download = "ok",
                            !.files = @ \cup {dl.targetPath},
                            !.writes = Append(@, dl.targetPath),
                            !.content = "downloaded",
                            !.result = DownloadSaved(dl.targetPath)]
       \/ dl' = [dl EXCEPT !.pc = "done",
                            !.download = "ok",
                            !.writes = Append(@, dl.targetPath),
                            !.result = DownloadError("Failed to download file to local path")]
       \/ dl' = [dl EXCEPT !.pc = "done",
                            !.download = "ok",
                            !.files = @ \cup {dl.targetPath},
                            !.writes = Append(@, dl.targetPath),
                            !.content = "partial",
                            !.result = DownloadError("Failed to download file to local path")]
    /\ UNCHANGED <<accessToken, refreshToken, outputFormat, clientSecret, minted, call, srv,
                   tool, bind, norm, tree, match, drive, reg, listChildren>>

NextDownload ==
    \/ DownloadStart
    \/ DownloadReturned

SpecDownload == InitDownload /\ [][NextDownload]_vars

\* ------------------------------------------------- listDriveItemChildren
\* The longest chain of pages a listing of children is served in; a service
\* whose cursors never end is followed for this many requests.
MaxChildPages == 102

\* The '@odata.nextLink' of a page of children: absent, the empty string, a
\* number, a string that is no URL, or the URL of page `to`.
Link(kind, to) == [kind |-> kind, to |-> to]
NoLink == Link("absent", 0)
\* A page of children as makeRequest returns it: value is <<>> when the body has
\* no value.
ChildPage(value, nextLink) == [value |-> value, nextLink |-> nextLink]

\* The items of page i: one on an odd page, two on an even one.
ChildItems(i) == IF i % 2 = 1 THEN << <<i, 1>> >> ELSE << <<i, 1>>, <<i, 2>> >>

\* A service that holds n pages chained by cursors, the last page ending as
\* given: with a link of some kind, and with no value when bare.
Chain(n, last, bare) ==
    [i \in 1..n |-> IF i < n THEN ChildPage(ChildItems(i), Link("url", i + 1))
                    ELSE ChildPage(IF bare THEN <<>> ELSE ChildItems(i), last)]
\* The services at hand: chains of one, two and three pages and one of
\* MaxChildPages pages, their last page without a cursor or with one that
\* cannot be followed; and services whose last page points back to the first,
\* so that the cursors never end.
ChildPageCounts == {1, 2, 3, MaxChildPages}
ChildServers ==
    { Chain(n, Link(k, 0), bare) : n \in ChildPageCounts,
                                   k \in {"absent", "empty", "number", "malformed"},
                                   bare \in BOOLEAN }
    \cup { Chain(n, Link("url", 1), FALSE) : n \in {1, 2} }

\* The service has a page whose cursor cannot be followed.
Ends(server) == \E i \in DOMAIN server : server[i].nextLink.kind # "url"

\* The page the service gives for an endpoint: the one its skip token names,
\* else the first.
ChildrenPath == <<"/", "d", "r", "i", "v", "e", "s", "/", "d", "/", "i", "t", "e", "m", "s", "/", "i", "/", "c", "h", "i", "l", "d", "r", "e", "n">>
ServedPage(server, endpoint) ==
    LET i == PageIndex(endpoint)
    IN  IF i \in DOMAIN server THEN server[i] ELSE ChildPage(<<>>, NoLink)

\* CursorUsable with no cursor followed at all.
CursorUsable_Never(nextLink) == FALSE

\* lines 452-463: the cursor is followed when it is a non-empty string that
\* new URL() accepts.
CursorUsable(nextLink) ==
    /\ nextLink.kind \notin {"absent", "empty"}
    /\ nextLink.kind # "number"
    /\ nextLink.kind # "malformed"

\* line 459: endpoint = url.pathname.replace('/v1.0', '') + url.search
NextEndpoint(nextLink) == Endpoint(ChildrenPath, SkipQuery(nextLink.to))

\* lines 427-433: the first endpoint; $top is appended for a positive pageSize
\* (<<>> when none is given).
TopQuery(n) == <<"top", n>>
FirstEndpoint(pageSize) ==
    Endpoint(ChildrenPath,
             IF pageSize # <<>> /\ pageSize[1] > 0 THEN TopQuery(pageSize[1]) ELSE NoQuery)

\* listDriveItemChildren is called for a folder of a drive.
InitList ==
    /\ SessionAtRest
    /\ bind = [pc |-> "idle"]
    /\ norm = [pc |-> "idle"]
    /\ tree = [pc |-> "idle"]
    /\ match = [pc |-> "idle"]
    /\ drive = [pc |-> "idle"]
    /\ reg = [pc |-> "idle"]
    /\ dl = [pc |-> "idle"]
    /\ \E server \in ChildServers, pageSize \in {<<>>, <<0>>, <<2>>} :
         listChildren = [pc |-> "called", server |-> server, pageSize |-> pageSize,
                         endpoint |-> Endpoint(<<>>, NoQuery), items |-> <<>>,
                         requests |-> <<>>, result |-> <<>>]

\* lines 426-440: the first request is issued.
ListStart ==
    /\ listChildren.pc = "called"
    /\ LET endpoint == FirstEndpoint(listChildren.pageSize) IN
       listChildren' = [listChildren EXCEPT !.pc = "requesting", !.endpoint = endpoint,
                                            !.requests = <<endpoint>>]
    /\ UNCHANGED <<accessToken, refreshToken, outputFormat, clientSecret, minted, call, srv,
                   tool, bind, norm, tree, match, drive, reg, dl>>

\* lines 440-466: makeRequest throws, which ends the listing with that error, or
\* returns a page: its items are appended, and either the cursor is followed
\* with the next request or the items are returned.
ChildPageReturned ==
    /\ listChildren.pc = "requesting"
    /\ Len(listChildren.requests) <= MaxChildPages
    /\ \/ listChildren' = [listChildren EXCEPT !.pc = "failed"]
       \/ LET page  == ServedPage(listChildren.server, listChildren.endpoint)
              items == listChildren.items \o page.value
          IN  IF CursorUsable(page.nextLink)
              THEN LET endpoint == NextEndpoint(page.nextLink) IN
                   listChildren' = [listChildren EXCEPT !.items = items,
                                                        !.endpoint = endpoint,
                                                        !.requests = Append(@, endpoint)]
              ELSE listChildren' = [listChildren EXCEPT !.pc = "done", !.items = items,
                                                        !.result = items]
    /\ UNCHANGED <<accessToken, refreshToken, outputFormat, clientSecret, minted, call, srv,
                   tool, bind, norm, tree, match, drive, reg, dl>>

NextList ==
    \/ ListStart
    \/ ChildPageReturned

SpecList == InitList /\ [][NextList]_vars

\* Every request is answered and the code runs on after each answer.
SpecListLive == SpecList /\ WF_vars(NextList)

\* --------------------------------------------------------------- claims
\* The refresh token makeRequest holds for call c: options.refreshToken || this.refreshToken.
HeldRefreshToken(c) == OrElse(call[c].options.refreshToken, call[c].rt0)

\* C1: one makeRequest call performs at most one refresh and at most two HTTP
\* attempts whatever the service replies; when the first attempt returns 401 and a
\* refresh token is held, the refresh is invoked exactly once, and once it has
\* granted a token the request is issued exactly once more, with the granted token.
C1_OneRefreshOneRetry ==
    \A c \in CallIds :
        /\ call[c].attempts <= 2
        /\ call[c].refreshes <= 1
        /\ Len(call[c].sent) = call[c].attempts
        /\ call[c].attempts = 2 => (call[c].refreshes = 1 /\ call[c].grant.ok)
        /\ (call[c].pc \in {"refresh", "attempt2", "done"}
            /\ Len(call[c].got) >= 1 /\ call[c].got[1] = 401 /\ HeldRefreshToken(c) # Null)
           => /\ call[c].refreshes = 1
              /\ (call[c].pc \in {"attempt2", "done"} /\ call[c].grant.ok)
                 => /\ call[c].attempts = 2
                    /\ call[c].sent[2] = call[c].grant.access_token
                    /\ call[c].sent[2] # call[c].sent[1]
                    /\ call[c].req.path = call[c].endpoint.path
                    /\ call[c].req.query = call[c].endpoint.query

C1_Witness ==
    /\ call[1].pc = "done"
    /\ call[1].got = <<401, 200>>
    /\ call[1].attempts = 2
    /\ call[1].refreshes = 1

\* C2: a 401, a granted refresh and a 200 on the retry give a normal result and
\* leave the session with the granted access token and with the granted refresh
\* token if one came, else with the refresh token it had; a 401 on the retry is a
\* thrown error, after two attempts and no more.
C2_RefreshThenRetry ==
    \A c \in {1} :
        call[c].pc = "done" =>
            /\ call[c].got = <<401, 200>> =>
                 /\ call[c].outcome.kind = "return"
                 /\ accessToken = call[c].grant.access_token
                 /\ accessToken # Null
                 /\ refreshToken = IF call[c].grant.refresh_token # Null
                                   THEN call[c].grant.refresh_token
                                   ELSE call[c].rt0
            /\ call[c].got = <<401, 401>> =>
                 /\ call[c].outcome.kind = "throw"
                 /\ call[c].outcome.error.status = 401
                 /\ call[c].attempts = 2

C2_Witness ==
    /\ call[1].pc = "done"
    /\ call[1].got = <<401, 200>>
    /\ call[1].grant.refresh_token = Null
    /\ call[1].rt0 = SessionRT
    /\ refreshToken = SessionRT
    /\ accessToken = MintedAT(1)

\* C3: when the first attempt returns 401 and no refresh token is held, or the
\* refresh fails (no client secret, or the token endpoint refuses), the request is
\* not issued again, the session's tokens are as they were and the call throws.
C3_NoRetryWithoutRefresh ==
    \A c \in {1} :
        (/\ call[c].pc = "done"
         /\ Len(call[c].got) >= 1 /\ call[c].got[1] = 401
         /\ (HeldRefreshToken(c) = Null \/ ~call[c].grant.ok))
        => /\ call[c].attempts = 1
           /\ call[c].outcome.kind = "throw"
           /\ accessToken = call[c].at0
           /\ refreshToken = call[c].rt0

C3_Witness ==
    /\ call[1].pc = "done"
    /\ call[1].got = <<401>>
    /\ HeldRefreshToken(1) # Null
    /\ call[1].refreshes = 1
    /\ ~clientSecret

\* C4: a 403 whose body contains 'scope' throws the scope error, which tells to
\* run in organization mode; a 403 whose body has neither 'scope' nor 'permission'
\* throws the generic error with the status, the reason phrase and the body; the
\* two differ for the same status.
C4_ScopeDenied ==
    \A c \in CallIds :
        (call[c].pc = "done" /\ ~call[c].last.net /\ call[c].last.status = 403) =>
           LET e == call[c].outcome.error
               w == call[c].last.text.words
           IN  /\ call[c].outcome.kind = "throw"
               /\ e.status = 403 /\ e.statusText = "Forbidden" /\ e.body = w
               /\ "scope" \in w
                    => (e.kind = "Microsoft Graph API scope error" /\ e.orgHint)
               /\ w \cap Markers = {}
                    => (e.kind = "Microsoft Graph API error" /\ ~e.orgHint)

C4_Witness ==
    /\ call[1].pc = "done"
    /\ call[1].last.status = 403
    /\ "scope" \in call[1].last.text.words
    /\ call[1].outcome.error.orgHint

\* The body of the result handed to the caller, and the whole collection as the
\* service holds it: the items of pages 1..n in page order.
ResultBody == Parse(tool.result.text)
RECURSIVE PagesUpTo(_)
PagesUpTo(n) == IF n = 0 THEN <<>> ELSE PagesUpTo(n - 1) \o PageItems(n)
WholeCollection == PagesUpTo(srv.n)

\* C5: whenever a request of the invocation (the first call, its retry or a
\* follow-up page) ends in a fatal condition, the result has isError = true and
\* carries the message.
C5_FatalIsError ==
    (tool.pc = "done" /\ tool.fatal)
    => (tool.result.isError /\ Parses(tool.result.text) /\ Has(ResultBody, K_error))

\* C6: with fetchAllPages, when the service serves its N <= 100 pages linked by
\* cursors, the result's items are the items of all N pages, each once and in
\* page order, and the result has no cursor.
C6_AggregatesEveryPage ==
    (/\ tool.pc = "done" /\ tool.fetchAllPages /\ tool.proper
     /\ ~tool.options.excludeResponse /\ outputFormat = "json" /\ srv.n <= MaxPages)
    => /\ ItemsOf(ResultBody) = WholeCollection
       /\ ~Has(ResultBody, K_nextLink)

\* C7: a follow-up request goes to the cursor's path with the cursor's query
\* parameters, so that the follow-up after k pages addresses page k + 1.
C7_FollowUpCarriesCursorQuery ==
    (tool.pc = "paging" /\ call[1].attempts >= 1)
    => /\ call[1].req.path = tool.followed[1].path
       /\ call[1].req.query = tool.followed[1].query
       /\ PageIndex(call[1].req) = tool.pageCount + 1

\* C8: without fetchAllPages exactly one page is requested, and the result still
\* has the cursor the service gave with that page.
C8_SinglePageKeepsCursor ==
    (tool.pc = "done" /\ ~tool.fetchAllPages)
    => /\ tool.fetched = 1
       /\ (/\ Has(tool.first, K_nextLink)
           /\ ~tool.options.excludeResponse /\ outputFormat = "json")
          => /\ Has(ResultBody, K_nextLink)
             /\ ResultBody[K_nextLink] = tool.first[K_nextLink]

\* C9: one invocation requests at most 100 pages, the first included; when the
\* 100th page still has a cursor the loop ends and the items gathered so far are
\* the result, which is no error.
C9_PageCeiling ==
    /\ tool.fetched <= MaxPages
    /\ tool.pageCount <= MaxPages
    /\ (tool.pc = "done" /\ tool.pageCount = MaxPages /\ tool.nextLink # <<>>)
       => /\ ~tool.result.isError
          /\ Parses(tool.result.text)
          /\ ItemsOf(ResultBody) = tool.allItems
          /\ ~Has(ResultBody, K_nextLink)

C9_Witness ==
    /\ tool.pc = "done"
    /\ tool.fetched = MaxPages
    /\ tool.pageCount = MaxPages
    /\ tool.nextLink # <<>>
    /\ Len(tool.allItems) >= MaxPages
    /\ ItemsOf(ResultBody) = tool.allItems

\* C10: when the aggregation fails on a follow-up page, after the first page was
\* taken, the result holds the items gathered from the pages before the failure.
C10_PartialAggregateKept ==
    (tool.pc = "done" /\ tool.caught /\ tool.pageCount >= 1)
    => /\ ~tool.result.isError
       /\ Parses(tool.result.text)
       /\ ItemsOf(ResultBody) = tool.allItems

\* C11: page aggregation is done for GET endpoints only: on either invocation
\* path, no follow-up page request is issued for an endpoint whose method is
\* not GET, fetchAllPages = true or not.
C11_PagingOnlyForGet ==
    (tool.pc = "paging" /\ call[1].pc = "attempt1") => call[1].req.method = "GET"

\* C12: when the aggregation completes and the first page carried a count field,
\* of any value, the result's count field equals the number of accumulated
\* items and the result's items are the accumulated items.
C12_CountIsAccumulated ==
    (/\ tool.pc = "done" /\ tool.fetchAllPages /\ ~tool.caught
     /\ ~tool.result.isError /\ ~tool.options.excludeResponse
     /\ Has(tool.first, K_count))
    => /\ Has(ResultBody, K_count)
       /\ ResultBody[K_count] = Len(tool.allItems)
       /\ ItemsOf(ResultBody) = tool.allItems

\* C18: the knobs take precedence minimal > raw > default. With excludeResponse
\* the result of the invocation is the success indicator alone, whatever
\* rawResponse and fetchAllPages are; with rawResponse alone the body is handed
\* on with no metadata key removed; with neither the metadata keys are removed.
C18_KnobPrecedence ==
    (tool.pc = "done" /\ ~tool.result.isError /\ ~tool.caught)
    => LET body == tool.result.text.data IN
       /\ tool.options.excludeResponse => body = (K_success :> TRUE)
       /\ (tool.options.rawResponse /\ ~tool.options.excludeResponse /\ ~tool.fetchAllPages)
          => body = tool.first
       /\ (~tool.options.rawResponse /\ ~tool.options.excludeResponse)
          => \A k \in DOMAIN body : k[1] # ODataPrefix

\* C19: with includeHeaders the entity tag of the response is attached to the
\* result's _meta, and the body is the body the call has without includeHeaders.
C19_EtagInMeta ==
    (/\ tool.pc = "done" /\ ~tool.result.isError /\ ~tool.fetchAllPages
     /\ tool.options.includeHeaders /\ ~tool.options.excludeResponse
     /\ Has(tool.first, K_etag))
    => /\ Has(tool.result.meta, Key("etag"))
       /\ tool.result.meta[Key("etag")] = tool.first[K_etag]
       /\ ~Has(tool.result.text.data, K_etag)

\* The supplied names that the endpoint declares as parameters of the given type.
SuppliedAs(type) ==
    { bind.params[i][1] : i \in DOMAIN bind.params }
    \cap { bind.td.parameters[j].name :
             j \in { k \in DOMAIN bind.td.parameters : bind.td.parameters[k].type = type } }

\* C13: binding a value to a Path parameter replaces every occurrence of both
\* placeholder syntaxes, {name} and :name, so that the bound path has no
\* placeholder left for a supplied path parameter.
C13_EveryPlaceholderReplaced ==
    bind.pc = "issued"
    => \A n \in SuppliedAs("Path") \ ControlKeys :
          /\ ~includes(bind.out.path, <<"{">> \o n \o <<"}">>)
          /\ ~includes(bind.out.path, <<":">> \o n)

\* C14: for each of the nine reserved query names that the endpoint declares as
\* a query parameter, the key supplied with the '$' prefix or without it gives
\* one and the same query entry: a single entry under the '$'-prefixed name,
\* with the supplied value, and none under the bare name; the request's query
\* string carries it.
C14_ReservedQueryNames ==
    bind.pc = "issued"
    => \A q \in odataParams :
         LET declared == \E j \in DOMAIN bind.td.parameters :
                            bind.td.parameters[j] = ParamDef(q, "Query", NoSchema)
             supplied == { i \in DOMAIN bind.params : bind.params[i][1] \in {q, Dollar(q)} }
             query    == bind.out.queryParams
         IN  (declared /\ supplied # {})
             => LET last == CHOOSE i \in supplied : \A j \in supplied : j <= i
                    v    == bind.params[last][2].s
                IN  /\ Cardinality({ i \in DOMAIN query : query[i][1] = Dollar(q) }) = 1
                    /\ ~HasEntry(query, q)
                    /\ EntryOf(query, Dollar(q)) = v
                    /\ includes(bind.out.path,
                                <<"%", "2", "4">> \o q \o <<"=">> \o encodeURIComponent(v))

C14_Witness ==
    /\ bind.pc = "issued"
    /\ bind.params = << <<Dollar(<<"o", "r", "d", "e", "r", "b", "y">>), StringValue(<<"a", "/">>)>> >>
    /\ bind.out.queryParams = << <<Dollar(<<"o", "r", "d", "e", "r", "b", "y">>), <<"a", "/">>>> >>
    /\ bind.out.path = <<"/", "u", "/", ":", "i", "d", "?", "%", "2", "4", "o", "r", "d", "e", "r", "b", "y", "=", "a", "%", "2", "F">>

\* C15: a control key is never bound as a path, query, header or body parameter,
\* whatever the endpoint declares under its name: no query entry and no header
\* has its name, and the path, the query, the body and the headers other than
\* Prefer are those the map without the control keys gives. (The timezone value
\* is sent in the Prefer header of lines 170-174 only.)
C15_ControlKeysNotBound ==
    bind.pc \in {"issued", "failed"}
    => LET IsPlain(e)  == e[1] \notin ControlKeys
           NotPrefer(e) == e[1] # N_Prefer
           plain == BindParams(bind.td, bind.config, SelectSeq(bind.params, IsPlain))
       IN  /\ \A k \in ControlKeys :
                /\ ~HasEntry(bind.out.queryParams, k)
                /\ ~HasEntry(bind.out.queryParams, Dollar(k))
                /\ ~HasEntry(bind.out.headers, k)
                /\ bind.out.body.of.name # k
           /\ bind.out.threw = plain.threw
           /\ bind.out.path = plain.path
           /\ bind.out.queryParams = plain.queryParams
           /\ bind.out.body = plain.body
           /\ SelectSeq(bind.out.headers, NotPrefer) = plain.headers

C15_Witness ==
    /\ bind.pc = "issued"
    /\ bind.config.supportsTimezone
    /\ \E j \in DOMAIN bind.td.parameters :
         bind.td.parameters[j] = ParamDef(N_timezone, "Header", NoSchema)
    /\ bind.params = << <<N_timezone, StringValue(<<"a", "/">>)>>, <<N_other, StringValue(<<"a", "/">>)>> >>
    /\ bind.out.headers = << <<N_Prefer, <<"o", "u", "t", "l", "o", "o", "k", ".", "t", "i", "m", "e", "z", "o", "n", "e", "=", "\"", "a", "/", "\"">>>> >>
    /\ bind.out.path = <<"/", "u", "/", "{", "i", "d", "}">>

\* C16: parameter binding never fails the call: for every parameter map, with
\* unmatched keys, values failing validation or malformed values, the binding
\* completes and a request is issued.
C16_BindingNeverFails ==
    bind.pc # "called" => (bind.pc = "issued" /\ ~bind.out.threw)

\* No key of obj, at any depth, starts with '@odata.'.
RECURSIVE NoODataKey(_)
NoODataKey(obj) ==
    \A k \in DOMAIN obj :
        /\ k[1] # ODataPrefix
        /\ k = K_nested => NoODataKey(obj[k])
        /\ k = K_entries => \A i \in DOMAIN obj[k] : NoODataKey(obj[k][i])

\* res has the keys of orig that do not start with '@odata.', at every depth,
\* each with the value it has in orig.
RECURSIVE SameButOData(_, _)
SameButOData(orig, res) ==
    /\ DOMAIN res = { k \in DOMAIN orig : k[1] # ODataPrefix }
    /\ \A k \in DOMAIN res :
         CASE k = K_nested  -> SameButOData(orig[k], res[k])
           [] k = K_entries -> /\ DOMAIN res[k] = DOMAIN orig[k]
                               /\ \A i \in DOMAIN res[k] : SameButOData(orig[k][i], res[k][i])
           [] OTHER         -> res[k] = orig[k]

\* C17: in default mode the normalized body has no key that starts with
\* '@odata.' at any nesting depth, in nested objects and in array elements, and
\* every other key and value of the decoded body is as it was.
C17_MetadataStrippedAtEveryDepth ==
    (norm.pc = "returned" /\ ~norm.rawResponse /\ ~norm.excludeResponse)
    => /\ NoODataKey(norm.out.text.data)
       /\ SameButOData(norm.data, norm.out.text.data)

C17_Witness ==
    /\ norm.pc = "returned" /\ ~norm.rawResponse /\ ~norm.excludeResponse
    /\ norm.data = (Key("name") :> "n") @@ (K_context :> "ctx")
                   @@ (K_nested :> ((Key("name") :> "n") @@ (K_context :> "ctx")))
                   @@ (K_entries :> << (Key("name") :> "n") @@ (K_context :> "ctx") >>)
    /\ norm.out.text.data = (Key("name") :> "n")
                   @@ (K_nested :> (Key("name") :> "n"))
                   @@ (K_entries :> << (Key("name") :> "n") >>)

\* The nodes of a tree: the node itself and the nodes below it.
RECURSIVE NodesBelow(_)
NodesBelow(node) ==
    {node} \cup UNION { NodesBelow(node.children[i]) : i \in DOMAIN node.children }

RECURSIVE RunOn(_)
RunOn(t) ==
    IF t.pc = "done" THEN t
    ELSE LET n == Len(t.stack)
         IN  RunOn(WalkOn([t EXCEPT !.stack[n].children = ChildrenOf(t.lib, t.stack[n].id)]))

Collected(structure, includeFolders, maxDepth, filter, lib) ==
    RunOn([pc |-> "listing", structure |-> structure, includeFolders |-> includeFolders,
           maxDepth |-> maxDepth, filter |-> filter, lib |-> lib,
           effectiveMaxDepth |-> EffectiveMaxDepth(maxDepth),
           stack |-> <<Frame(<<>>, <<"/">>, 0)>>, flatItems |-> <<>>,
           truncated |-> FALSE, listed |-> <<<<>>>>, result |-> NoResult]).result

\* C21: the effective maximum depth is min(requested, 20), 10 when none is
\* requested; no walk runs with a depth counter above 20; and a call with a
\* requested depth above 20 ends, without an error of its own, in the result
\* the same call with maxDepth = 20 gives, having listed the folders down to
\* depth 20 and no other.
C21_DepthClamped ==
    tree.pc \in {"listing", "done"}
    => /\ tree.effectiveMaxDepth =
              (IF tree.maxDepth = <<>> THEN 10
               ELSE IF tree.maxDepth[1] > 20 THEN 20 ELSE tree.maxDepth[1])
       /\ \A i \in DOMAIN tree.stack : tree.stack[i].depth <= 20
       /\ (tree.pc = "done" /\ tree.maxDepth # <<>> /\ tree.maxDepth[1] > 20)
          => /\ tree.result = Collected(tree.structure, tree.includeFolders, <<20>>,
                                        tree.filter, tree.lib)
             /\ { tree.listed[i] : i \in DOMAIN tree.listed }
                    = { f \in tree.lib : Len(f) <= 20 }

C21_Witness ==
    /\ tree.pc = "done"
    /\ tree.maxDepth = <<25>>
    /\ tree.lib = DeepChain
    /\ tree.effectiveMaxDepth = 20
    /\ Len(tree.listed) = 21
    /\ tree.result.truncated

\* The folders whose children the walk has listed, and the entries it met there.
ListedFolders == { tree.listed[i] : i \in DOMAIN tree.listed }
Encountered ==
    UNION { { ChildrenOf(tree.lib, f)[i] : i \in DOMAIN ChildrenOf(tree.lib, f) }
            : f \in ListedFolders }

\* C22: in flat structure the items of the result are, each once, the files met
\* whose name passes the filter and, with includeFolders only, the folders met
\* whose name passes the filter; they carry the entry's name and kind.
C22_FlatItems ==
    (tree.pc = "done" /\ tree.structure = "flat")
    => LET items == tree.result.items
           wanted == { e \in Encountered :
                         /\ matchesFilter(e.name, tree.filter)
                         /\ e.folder => tree.includeFolders }
       IN  /\ { items[i].driveItemId : i \in DOMAIN items } = { e.id : e \in wanted }
           /\ \A i, j \in DOMAIN items : items[i].driveItemId = items[j].driveItemId => i = j
           /\ \A i \in DOMAIN items : \E e \in wanted :
                 /\ e.id = items[i].driveItemId
                 /\ e.name = items[i].name
                 /\ e.folder = items[i].isFolder

C22_Witness ==
    /\ tree.pc = "done" /\ tree.structure = "flat"
    /\ tree.includeFolders
    /\ tree.filter = <<"d", "1">>
    /\ tree.lib = FullLibrary(2, 2)
    /\ tree.maxDepth = <<>>
    /\ [i \in DOMAIN tree.result.items |-> tree.result.items[i].driveItemId]
           = << <<1>>, <<1, 1>>, <<2, 1>> >>

\* C23: in tree structure every folder whose children were listed has its node
\* in the tree, and the children of that node are, in listing order, the leaves
\* of all its files, whatever the filter, and the nodes of the sub-folders the
\* walk recursed into.
C23_TreeChildren ==
    (tree.pc = "done" /\ tree.structure = "tree")
    => \A f \in ListedFolders :
          \E nd \in NodesBelow(tree.result.root[1]) :
             LET kept == SelectSeq(ChildrenOf(tree.lib, f),
                                   LAMBDA e : ~e.folder \/ e.id \in ListedFolders)
             IN  /\ nd.driveItemId = f /\ nd.isFolder
                 /\ Len(nd.children) = Len(kept)
                 /\ \A i \in DOMAIN kept :
                       /\ nd.children[i].driveItemId = kept[i].id
                       /\ nd.children[i].name = kept[i].name
                       /\ nd.children[i].isFolder = kept[i].folder
                       /\ ~kept[i].folder => nd.children[i].children = <<>>

C23_Witness ==
    /\ tree.pc = "done" /\ tree.structure = "tree"
    /\ tree.filter = <<"*", ".", "P", "D", "F">>
    /\ tree.lib = FullLibrary(1, 1)
    /\ tree.maxDepth = <<>>
    /\ LET root == tree.result.root[1]
       IN  /\ [i \in DOMAIN root.children |-> root.children[i].driveItemId]
                 = << <<8>>, <<1>>, <<9>> >>
           /\ root.children[3].name = <<"B", ".", "t", "x", "t">>
           /\ [i \in DOMAIN root.children[2].children |->
                 root.children[2].children[i].driveItemId] = << <<1, 8>>, <<1, 9>> >>

\* The place of the entry with id Append(f, c) in the listing of folder f.
PlaceIn(f, c) ==
    CHOOSE i \in DOMAIN ChildrenOf(tree.lib, f) : ChildrenOf(tree.lib, f)[i].id = Append(f, c)

IsPrefix(a, b) == Len(a) <= Len(b) /\ SubSeq(b, 1, Len(a)) = a

\* Entry a comes before entry b in the depth-first pre-order of the library with
\* children in listing order: a is an ancestor of b, or where their ways from
\* the root part, a's way takes the entry listed earlier.
PreOrderBefore(a, b) ==
    IF IsPrefix(a, b) THEN a # b
    ELSE IF IsPrefix(b, a) THEN FALSE
    ELSE LET k == CHOOSE k \in 1..Len(a) :
                     /\ k <= Len(b) /\ a[k] # b[k]
                     /\ \A j \in 1..(k - 1) : a[j] = b[j]
             p == SubSeq(a, 1, k - 1)
         IN  PlaceIn(p, a[k]) < PlaceIn(p, b[k])

\* C24: within one traversal at most one walk awaits a listing, and it is the
\* innermost one; the listings are asked for in depth-first pre-order; and the
\* items of the flat result stand in depth-first pre-order with children in
\* listing order.
C24_SequentialPreOrder ==
    /\ tree.pc \in {"listing", "done"}
       => LET awaiting == { i \in DOMAIN tree.stack : tree.stack[i].children = <<>> }
          IN  /\ Cardinality(awaiting) <= 1
              /\ awaiting = (IF tree.pc = "listing" THEN {Len(tree.stack)} ELSE {})
              /\ \A i, j \in DOMAIN tree.listed :
                    i < j => PreOrderBefore(tree.listed[i], tree.listed[j])
    /\ (tree.pc = "done" /\ tree.structure = "flat")
       => \A i, j \in DOMAIN tree.result.items :
             i < j => PreOrderBefore(tree.result.items[i].driveItemId,
                                     tree.result.items[j].driveItemId)

C24_Witness ==
    /\ tree.pc = "done" /\ tree.structure = "flat"
    /\ tree.includeFolders /\ tree.filter = <<>>
    /\ tree.lib = FullLibrary(1, 2)
    /\ tree.maxDepth = <<>>
    /\ [i \in DOMAIN tree.result.items |-> tree.result.items[i].driveItemId]
           = << <<8>>, <<1>>, <<1, 8>>, <<1, 9>>, <<9>>, <<2>>, <<2, 8>>, <<2, 9>> >>

\* Two texts are the same but for the case of their letters.
SameButCase(a, b) ==
    Len(a) = Len(b) /\ \A i \in DOMAIN a : LowerChar(a[i]) = LowerChar(b[i])

\* C25: matchesFilter ignores case; no filter matches every name; a filter
\* '*.ext' matches exactly the names that end in '.ext'; a filter without '*'
\* matches exactly the names that contain it; '*.pdf' matches 'Report.PDF' and
\* rejects 'report.pdf.txt'.
C25_MatchesFilter ==
    match.pc = "returned"
    => LET name   == match.name
           filter == match.filter
           ends(x)  == Len(x) <= Len(name)
                       /\ SameButCase(SubSeq(name, Len(name) - Len(x) + 1, Len(name)), x)
           holds(x) == \E i \in 1..(Len(name) - Len(x) + 1) :
                          SameButCase(SubSeq(name, i, i + Len(x) - 1), x)
       IN  /\ filter = <<>> => match.out
           /\ (Len(filter) > 2 /\ SubSeq(filter, 1, 2) = <<"*", ".">>)
              => (match.out <=> ends(Tail(filter)))
           /\ (filter # <<>> /\ \A i \in DOMAIN filter : filter[i] # "*")
              => (match.out <=> holds(filter))
           /\ (filter = <<"*", ".", "p", "d", "f">> /\ name = <<"R", "e", "p", "o", "r", "t", ".", "P", "D", "F">>) => match.out
           /\ (filter = <<"*", ".", "p", "d", "f">> /\ name = <<"r", "e", "p", "o", "r", "t", ".", "p", "d", "f", ".", "t", "x", "t">>) => ~match.out

C25_Witness ==
    /\ match.pc = "returned"
    /\ match.filter = <<"*", ".", "p", "d", "f">>
    /\ match.name = <<"R", "e", "p", "o", "r", "t", ".", "P", "D", "F">>
    /\ match.out

\* C26: from a listing that is not empty resolveSiteDrive selects the first
\* drive whose id is the driveId asked for, else the first whose name is the
\* driveName asked for, else the first with a preferred name, else the first
\* drive; it looks up the root item once if the selected drive carries no root
\* id and not at all if it does; and on an empty listing it fails at once.
C26_DriveResolution ==
    LET listing == drive.drives
        same(a, b) == normalize(a) = normalize(b)
        idHits   == { i \in DOMAIN listing :
                        drive.driveId # <<>> /\ same(listing[i].id, drive.driveId) }
        nameHits == { i \in DOMAIN listing :
                        /\ drive.driveName # <<>> /\ listing[i].name # <<>>
                        /\ same(listing[i].name, drive.driveName) }
        likedHits == { i \in DOMAIN listing : normalize(listing[i].name) \in preferredNames }
        first(S) == CHOOSE i \in S : \A j \in S : i <= j
        wanted == IF idHits # {} THEN first(idHits)
                  ELSE IF nameHits # {} THEN first(nameHits)
                  ELSE IF likedHits # {} THEN first(likedHits)
                  ELSE 1
        lookups == Len(SelectSeq(drive.requests, LAMBDA r : r[1] = "root"))
    IN  /\ (drive.pc \in {"root", "done", "failed"} /\ listing # <<>>)
           => /\ drive.selected = listing[wanted]
              /\ lookups = (IF drive.selected.rootId = "" THEN 1 ELSE 0)
              /\ lookups = 1 => drive.requests[2] = <<"root", drive.selected.id>>
              /\ Len(drive.requests) = 1 + lookups
        /\ (drive.pc # "listing" /\ listing = <<>>)
           => drive.pc = "failed" /\ lookups = 0
        /\ drive.pc = "done"
           => /\ drive.result.driveId = drive.selected.id
              /\ drive.result.rootItemId =
                     (IF drive.selected.rootId # "" THEN drive.selected.rootId ELSE "r9")

C26_Witness ==
    /\ drive.pc = "done"
    /\ drive.driveId = <<" ", "B", "2", " ">>
    /\ drive.driveName = <<"D", "O", "C", "S">>
    /\ drive.drives = << Drive(<<"A", "1">>, <<"D", "o", "c", "s">>, "r1"), Drive(<<"b", "2">>, <<"D", "o", "c", "u", "m", "e", "n", "t", "s">>, "") >>
    /\ drive.result = [driveId |-> <<"b", "2">>, driveName |-> <<"D", "o", "c", "u", "m", "e", "n", "t", "s">>, rootItemId |-> "r9"]
    /\ Len(drive.requests) = 2

Elements(s) == { s[i] : i \in DOMAIN s }

\* C27: registerGraphTools registers an endpoint of the catalog if and only if
\* it is not for work accounts only while organization mode is off, it is not
\* of a method other than GET while read-only mode is on, and its name does not
\* fail a name pattern that is configured and valid.
C27_DirectRegistration ==
    reg.pc = "direct"
    => \A i \in DOMAIN reg.catalog :
          LET e == reg.catalog[i]
              workOnly == e.hasConfig /\ e.workScopes /\ ~e.scopes
              patternSet == reg.enabledToolsPattern \notin { <<>>, <<"(">> }
          IN  e.alias \in Elements(reg.tools)
              <=> ~ \/ workOnly /\ ~reg.orgMode
                    \/ e.method # "get" /\ reg.readOnly
                    \/ patternSet /\ ~RegExpTest(reg.enabledToolsPattern, e.alias)

C27_Witness ==
    /\ reg.pc = "direct"
    /\ reg.readOnly /\ ~reg.orgMode
    /\ reg.enabledToolsPattern = <<"^", "L", "I", "S", "T">>
    /\ reg.tools = << <<"l", "i", "s", "t", "-", "m", "a", "i", "l">>, <<"L", "i", "s", "t", "-", "D", "r", "i", "v", "e", "s">>, N_listSiteFiles, N_downloadFile >>

\* C28: for every configuration the endpoints in the registry of search-tools
\* and execute-tool are the endpoints registerGraphTools registers for the same
\* configuration.
C28_SameVisibleSet ==
    reg.pc = "discovery"
    => Elements(AliasesOf(reg.toolsRegistry))
          = Elements(DirectTools(reg.catalog, reg.readOnly, reg.enabledToolsPattern,
                                 reg.orgMode)) \ {N_listSiteFiles, N_downloadFile}

\* The target lies in the base directory: it is the directory or a path below it.
InsideBase(targetPath) ==
    LET baseSegs == NormalSegments(SplitPath(DownloadDir, <<>>, <<>>), <<>>)
        segs     == NormalSegments(SplitPath(targetPath, <<>>, <<>>), <<>>)
    IN  Len(segs) >= Len(baseSegs) /\ SubSeq(segs, 1, Len(baseSegs)) = baseSegs

\* C29: a call whose resolved target lies outside the base directory ends in
\* an error result, having made no directory, requested no download and
\* written no file, whatever overwrite is.
C29_EscapesRejected ==
    (dl.pc \in {"downloading", "done"} /\ ~InsideBase(dl.targetPath))
    => /\ dl.pc = "done" /\ dl.result.isError
       /\ dl.mkdirs = <<>> /\ dl.requests = 0 /\ dl.writes = <<>>

\* C30: when the refreshes of both callers have been granted, the session holds
\* the access token of the grant that came last; the retry of either caller is
\* sent with an access token one of the grants brought, never with the token of
\* its first attempt; and either caller ends with the response to that retry,
\* after no more than one refresh and two attempts.
C30_LastRefreshWins ==
    LET granted == { c \in CallIds : call[c].grant.ok }
    IN  /\ granted = CallIds
           => LET last == CHOOSE c \in CallIds : \A d \in CallIds :
                              call[d].grant.access_token[2] <= call[c].grant.access_token[2]
              IN  accessToken = call[last].grant.access_token
        /\ \A c \in CallIds :
              /\ call[c].attempts <= 2 /\ call[c].refreshes <= 1 /\ Len(call[c].got) <= 2
              /\ call[c].attempts = 2
                 => /\ call[c].sent[2] \in { call[d].grant.access_token : d \in granted }
                    /\ call[c].sent[2] # call[c].sent[1]
                    /\ call[c].req.token = call[c].sent[2]
              /\ (call[c].pc = "done" /\ call[c].attempts = 2 /\ Len(call[c].got) = 2)
                 => call[c].outcome = Classify(call[c].last, call[c].options)

C30_Witness ==
    /\ \A c \in CallIds : call[c].pc = "done" /\ call[c].got = <<401, 200>>
    /\ call[1].grant.access_token = MintedAT(1)
    /\ call[2].grant.access_token = MintedAT(2)
    /\ call[1].sent = <<SessionAT, MintedAT(2)>>
    /\ call[2].sent = <<SessionAT, MintedAT(2)>>
    /\ accessToken = MintedAT(2)

\* C31: after their installation the session's tokens change only in the step
\* in which a refresh is granted, the refresh of a call that has received 401:
\* a call that has received no 401, and a call whose refresh was not granted,
\* error or not, finds both tokens as they were when it started.
C31_OnlyRefreshMutates ==
    /\ [](\A c \in CallIds :
            (call[c].pc # "idle" /\ (call[c].got = <<>> \/ call[c].got[1] # 401 \/ ~call[c].grant.ok))
            => (accessToken = call[c].at0 /\ refreshToken = call[c].rt0))
    /\ [][(accessToken' # accessToken \/ refreshToken' # refreshToken)
          => \/ (accessToken = Null /\ \A c \in CallIds : call[c].pc = "idle")
             \/ \E c \in CallIds :
                  /\ call[c].pc = "refresh" /\ call[c].got = <<401>>
                  /\ call'[c].grant.ok
                  /\ accessToken' = call'[c].grant.access_token
                  /\ refreshToken' \in {refreshToken, call'[c].grant.refresh_token}]_vars

C31_Witness ==
    /\ call[1].pc = "done"
    /\ call[1].outcome.kind = "throw"
    /\ call[1].got = <<401>>
    /\ call[1].refreshes = 1
    /\ ~call[1].grant.ok
    /\ clientSecret
    /\ accessToken = SessionAT
    /\ refreshToken = SessionRT

\* C32: every request executeGraphTool issues carries, under the header name
\* Authorization, 'Bearer ' followed by the access token selected for the attempt
\* and nothing else, whatever the endpoint declares and the caller supplies,
\* parameters placed as headers included.
C32_BearerOnEveryRequest ==
    bind.pc = "issued"
    => HeaderSent(bind.sent, N_Authorization) = Bearer(AccessTokenText)

\* The entries of the caller's map that set the body: an entry that is no
\* control key and is declared as a Body parameter, or is undeclared and named
\* 'body'. The last of them decides the body.
SetsBody(i) ==
    LET name  == bind.params[i][1]
        found == MatchingDefs(bind.td.parameters, name)
    IN  /\ name \notin ControlKeys
        /\ IF found # {} THEN bind.td.parameters[FirstOf(found)].type = "Body"
           ELSE name = N_body
LastBodyEntry == CHOOSE i \in DOMAIN bind.params :
                    SetsBody(i) /\ \A j \in DOMAIN bind.params : SetsBody(j) => j <= i

\* C33: for a Body parameter with a validator the body of the request is the
\* value itself when the validator accepts it, else {paramName: value} when the
\* validator accepts that, else the value itself; the value is wrapped once at
\* most, and a binding fails only on a path or query entry that cannot be
\* encoded, never on the validation.
C33_BodyAutoCorrection ==
    /\ (bind.pc = "issued" /\ bind.td.method # "GET" /\ \E i \in DOMAIN bind.params : SetsBody(i))
       => LET i     == LastBodyEntry
              name  == bind.params[i][1]
              value == bind.params[i][2]
              found == MatchingDefs(bind.td.parameters, name)
          IN  (found # {} /\ bind.td.parameters[FirstOf(found)].schema.given)
              => LET schema == bind.td.parameters[FirstOf(found)].schema
                 IN  /\ bind.out.body.present
                     /\ bind.out.body.of.value = value
                     /\ bind.out.body.of.kind =
                            (IF schema.raw THEN "value"
                             ELSE IF schema.wrapped THEN "wrapped" ELSE "value")
                     /\ bind.out.body.of.kind = "wrapped" => bind.out.body.of.name = name
    /\ bind.pc = "failed"
       => \E i \in DOMAIN bind.params :
             LET found == MatchingDefs(bind.td.parameters, bind.params[i][1])
             IN  /\ found # {}
                 /\ bind.td.parameters[FirstOf(found)].type \in {"Path", "Query"}
                 /\ EncodeThrows(ToStr(bind.params[i][2]))

C33_Witness ==
    /\ bind.pc = "issued"
    /\ \E i \in DOMAIN bind.params : SetsBody(i)
    /\ LET name  == bind.params[LastBodyEntry][1]
           found == MatchingDefs(bind.td.parameters, name)
       IN  /\ found # {}
           /\ bind.td.parameters[FirstOf(found)].schema = Schema(FALSE, TRUE)
           /\ bind.out.body.of = BodyWrapped(name, bind.params[LastBodyEntry][2])
           /\ bind.out.body.of.value = StringValue(<<"a", LoneSurrogate>>)

\* The items of the first k pages of a service, in page order.
RECURSIVE ItemsUpTo(_, _)
ItemsUpTo(server, k) ==
    IF k = 0 THEN <<>> ELSE ItemsUpTo(server, k - 1) \o server[k].value
\* The first page of the service whose cursor cannot be followed.
FirstEnd(server) ==
    CHOOSE i \in DOMAIN server :
        /\ server[i].nextLink.kind # "url"
        /\ \A j \in 1..(i - 1) : server[j].nextLink.kind = "url"

\* C34: the listing of one folder returns what the pages reached by following the
\* cursors hold, in page order, and returns at the first page without a cursor
\* that can be followed, at whatever page count, more than 100 included; every
\* request answered, it ends when the service has such a page, and it never
\* returns when the service has none.
C34_ListsEveryPage ==
    /\ [](LET l == listChildren IN
          /\ l.pc = "done"
             => /\ Ends(l.server)
                /\ Len(l.requests) = FirstEnd(l.server)
                /\ l.result = ItemsUpTo(l.server, FirstEnd(l.server))
          /\ l.pc = "requesting"
             => /\ \A i \in DOMAIN l.requests : PageIndex(l.requests[i]) = ((i - 1) % Len(l.server)) + 1
                /\ l.items = ItemsUpTo([i \in 1..(Len(l.requests) - 1) |->
                                            l.server[((i - 1) % Len(l.server)) + 1]],
                                       Len(l.requests) - 1))
    /\ ((listChildren.pc = "called" /\ Ends(listChildren.server))
            ~> (listChildren.pc \in {"done", "failed"}))
    /\ [](listChildren.pc # "idle" /\ ~Ends(listChildren.server) => listChildren.pc # "done")

C34_Witness ==
    /\ listChildren.pc = "done"
    /\ Len(listChildren.server) = MaxChildPages
    /\ Len(listChildren.requests) = MaxChildPages
    /\ Len(listChildren.requests) > MaxPages
    /\ listChildren.result = ItemsUpTo(listChildren.server, MaxChildPages)
    /\ Len(listChildren.result) >= MaxChildPages

\* C35: whatever the service replies, an executeGraphTool invocation requests at
\* most 100 pages, each with at most two attempts and one refresh, and, every
\* request and refresh being answered, it returns a result.
C35_InvocationTerminates ==
    /\ [](/\ tool.fetched <= MaxPages
          /\ \A c \in CallIds : call[c].attempts <= 2 /\ call[c].refreshes <= 1
                                /\ Len(call[c].sent) = call[c].attempts
          /\ tool.pc \in {"first", "paging"} => call[1].pc # "idle")
    /\ (tool.pc \in {"first", "paging"}) ~> (tool.pc = "done")

C35_Witness ==
    /\ tool.pc = "done"
    /\ tool.fetched = MaxPages
    /\ minted = MaxMint
    /\ tool.fatal

\* C36: in read-only mode every request a registered tool sends carries the
\* method GET, whether the tool is an endpoint registered directly, a
\* convenience tool, or an endpoint reached through execute-tool, follow-up page
\* requests included; execute-tool asked for a name that is unknown, or that
\* the read-only mode or the organisation mode hides, answers the isError
\* result 'Tool not found' and sends no request.
C36_ReadOnlySendsOnlyGet ==
    (reg.pc \in {"direct", "discovery"} /\ reg.readOnly) =>
        /\ \A i \in DOMAIN reg.requests : reg.requests[i] = "GET"
        /\ (reg.pc = "discovery" /\ Len(reg.asked) = 1) =>
             LET name == reg.asked[1]
                 open == {i \in DOMAIN reg.catalog :
                            /\ reg.catalog[i].alias = name
                            /\ reg.catalog[i].method = "get"
                            /\ reg.orgMode \/ ~WorkOnly(reg.catalog[i])}
             IN  /\ open = {} => /\ reg.isError
                                 /\ reg.error = "Tool not found"
                                 /\ reg.requests = <<>>
                 /\ open # {} => ~reg.isError /\ reg.requests # <<>>
C36_Witness ==
    /\ reg.pc = "discovery"
    /\ reg.readOnly
    /\ reg.asked = << <<"s", "e", "n", "d", "-", "m", "a", "i", "l">> >>
    /\ reg.isError
    /\ reg.error = "Tool not found"
    /\ reg.requests = <<>>

\* C37: download-file-to-local writes the target only after downloadBinary has
\* returned the content. Without overwrite, a file that exists at the target
\* ends the call with an error, no download request and no write; a download
\* that fails ends the call with an error and leaves the target as it was.
C37_WriteOnlyAfterDownload ==
    /\ (/\ dl.pc # "idle"
        /\ (dl.writes # <<>> \/ dl.content # "unchanged" \/ dl.files # dl.before)) =>
             /\ dl.download = "ok"
             /\ dl.requests = 1
             /\ \A i \in DOMAIN dl.writes : dl.writes[i] = dl.targetPath
    /\ dl.pc = "done" =>
         /\ (/\ PassesBaseCheck(dl.targetPath, pathResolve(<<"/">>, DownloadDir))
             /\ ~dl.overwrite
             /\ dl.targetPath \in dl.before) =>
                 /\ dl.result.isError
                 /\ dl.result.message = "File already exists"
                 /\ dl.requests = 0
                 /\ dl.download = "none"
                 /\ dl.writes = <<>>
         /\ dl.download \in DownloadFailures =>
                 /\ dl.result.isError
                 /\ dl.writes = <<>>
                 /\ dl.content = "unchanged"
                 /\ dl.files = dl.before
C37_Witness ==
    /\ dl.pc = "done"
    /\ dl.overwrite
    /\ dl.targetPath \in dl.before
    /\ dl.download = "refresh failed"
    /\ dl.requests = 1
    /\ dl.result.isError
    /\ dl.content = "unchanged"

\* C38: search-tools returns at most min(limit, 50) entries for every limit it
\* is given, 20 standing for a limit that is not given and limits of 0 or below
\* included, and 'found' is the number of entries returned.
C38_SearchLimit ==
    (reg.pc = "discovery" /\ Len(reg.asked) = 3) =>
        LET limit == reg.asked[3]
        IN  /\ Len(reg.search.tools) <= Min(IF limit = <<>> THEN 20 ELSE limit[1], 50)
            /\ reg.search.found = Len(reg.search.tools)

\* The folders of the library a listing of the folder f shows.
FoldersIn(lib, f) == { g \in lib : Len(g) = Len(f) + 1 /\ SubSeq(g, 1, Len(f)) = f }

MetAtCeiling(lib, listed) ==
    { g \in lib : /\ g # <<>>
                  /\ g \notin { listed[i] : i \in DOMAIN listed }
                  /\ SubSeq(g, 1, Len(g) - 1) \in { listed[i] : i \in DOMAIN listed } }

\* C40: in tree structure the folder nodes of the returned tree are exactly the
\* folders whose children were listed; a folder met at the depth ceiling is a
\* child of no node, and only truncated tells of it; in flat structure with
\* includeFolders that folder is an item of the list when its name passes the
\* filter.
C40_CeilingFoldersNotAttached ==
    tree.pc = "done" =>
        LET atCeiling == MetAtCeiling(tree.lib, tree.listed)
        IN  /\ atCeiling # {} <=> tree.result.truncated
            /\ tree.structure = "tree" =>
                 LET nodes == NodesBelow(tree.result.root[1])
                 IN  /\ { nd.driveItemId : nd \in { x \in nodes : x.isFolder } }
                            = { tree.listed[i] : i \in DOMAIN tree.listed }
                     /\ \A nd \in nodes : \A i \in DOMAIN nd.children :
                            nd.children[i].driveItemId \notin atCeiling
            /\ (tree.structure = "flat" /\ tree.includeFolders) =>
                 \A g \in atCeiling :
                    matchesFilter(FolderItem(g).name, tree.filter)
                    <=> \E i \in DOMAIN tree.result.items :
                           /\ tree.result.items[i].driveItemId = g
                           /\ tree.result.items[i].isFolder
C40_Witness ==
    /\ tree.pc = "done"
    /\ tree.structure = "tree"
    /\ tree.lib = FullLibrary(3, 2)
    /\ tree.maxDepth = <<1>>
    /\ tree.result.truncated
    /\ { nd.driveItemId : nd \in { x \in NodesBelow(tree.result.root[1]) : x.isFolder } }
           = { <<>>, <<1>>, <<2>> }
    /\ \E i \in DOMAIN Collected("flat", TRUE, tree.maxDepth, tree.filter, tree.lib).items :
          Collected("flat", TRUE, tree.maxDepth, tree.filter, tree.lib).items[i].driveItemId
              = <<1, 1>>
====
